---- MODULE Spec2Model ----
(***************************************************************************)
(* State-machine model of grizli/model.py: the dispersion engine           *)
(* (GrismDisperser), the per-object model cache of GrismFLT                *)
(* (compute_model_orders) and the detector-frame transfer functions.       *)
(*                                                                         *)
(* Conventions.  A 2D ndarray is a record [sh |-> <<rows, cols>>, v |-> f] *)
(* where f maps <<i, j>> (0-based, as numpy) to an integer.  A flat        *)
(* ndarray is a function on 0..n-1.  Python sequences that are only        *)
(* iterated (dx, trace anchors) are 1-based TLA+ sequences.  Fluxes are    *)
(* integers (exact arithmetic); trace positions are carried as twice their *)
(* value ("y2"), so that half-pixel trace offsets stay integral, and the   *)
(* 2D model buffers are therefore in units of half a count.                *)
(***************************************************************************)
EXTENDS Integers, Sequences, FiniteSets, TLC

VARIABLES
    model,              \* GrismFLT.model: the full detector model array
    object_dispersers,  \* GrismFLT.object_dispersers: id -> registry entry
    frame,              \* the exposure: direct image and segmentation map
    calls,              \* the compute_model_orders calls made so far
    serialized,         \* whether concurrent callers take turns on the detector
    holder,             \* the caller whose turn it is (0: nobody)
    writers,            \* concurrent callers: position in compute_model_orders
    disp,               \* a stand-alone GrismDisperser object
    full_array,         \* a stand-alone detector-sized array handed to disp
    nops,               \* number of stand-alone operations applied so far
    res,                \* the last stand-alone operation: arguments and result
    grism,              \* GrismFLT.grism.data: SCI, ERR and DQ of the exposure
    cutout,             \* a BeamCutout object
    search              \* BeamCutout.fit_redshift: position and local variables

fltVars  == <<frame, model, object_dispersers, calls>>
beamVars == <<disp, full_array, nops, res>>
raceVars == <<serialized, holder, writers>>
cutVars  == <<grism, cutout, search>>
vars     == <<fltVars, beamVars, raceVars, cutVars>>

-----------------------------------------------------------------------------
(* Integer and ndarray helpers (numpy semantics)                           *)

Min(a, b) == IF a <= b THEN a ELSE b
Max(a, b) == IF a >= b THEN a ELSE b
Abs(a)    == IF a >= 0 THEN a ELSE 0 - a

\* np.cast[int] of the rational n/d (d > 0): truncation toward zero.
IntCast(n, d) == IF n >= 0 THEN n \div d ELSE 0 - ((0 - n) \div d)

Idx(sh) == (0..(sh[1] - 1)) \X (0..(sh[2] - 1))

MkArr(sh, F(_, _)) == [sh |-> sh, v |-> [p \in Idx(sh) |-> F(p[1], p[2])]]

Zeros(sh) == [sh |-> sh, v |-> [p \in Idx(sh) |-> 0]]

Neg(a) == [sh |-> a.sh, v |-> [p \in DOMAIN a.v |-> 0 - a.v[p]]]

RECURSIVE SumOver(_, _)
SumOver(f, S) ==
    IF S = {} THEN 0
    ELSE LET x == CHOOSE y \in S : TRUE IN f[x] + SumOver(f, S \ {x})

\* Effective [lo, hi) of the basic slice start:stop on an axis of length n.
NpSlice(start, stop, n) ==
    LET norm(k) == IF k < 0 THEN Max(k + n, 0) ELSE Min(k, n)
        lo == norm(start)
        hi == norm(stop)
    IN  <<lo, Max(lo, hi)>>

\* numpy broadcasting of an in-place "a += b": every axis of b has the
\* length of a's axis or length 1; otherwise ValueError.
CanIAdd(ash, bsh) ==
    /\ bsh[1] = ash[1] \/ bsh[1] = 1
    /\ bsh[2] = ash[2] \/ bsh[2] = 1

BCast(b, ash, i, j) ==
    b.v[<<IF b.sh[1] = ash[1] THEN i ELSE 0, IF b.sh[2] = ash[2] THEN j ELSE 0>>]

\* a[rows, cols] where rows and cols are increasing sequences of indices
\* (a basic slice or a boolean mask selects such a sequence).
Take(a, rows, cols) ==
    MkArr(<<Len(rows), Len(cols)>>, LAMBDA i, j : a.v[<<rows[i + 1], cols[j + 1]>>])

RangeSeq(lo, hi) == [k \in 1..Max(hi - lo, 0) |-> lo + k - 1]

\* full[sly, slx] + b, the sum the in-place add computes for the window
\* (basic slices sly, slx already clipped to the array, b broadcast to the
\* window's shape).  A variant that takes b alone, as an assignment in
\* place of the accumulation would, comes first.
SliceSum_assigning(full, sly, slx, b) ==
    LET tsh == <<sly[2] - sly[1], slx[2] - slx[1]>>
    IN  MkArr(tsh, LAMBDA i, j : BCast(b, tsh, i, j))

SliceSum(full, sly, slx, b) ==
    LET tsh == <<sly[2] - sly[1], slx[2] - slx[1]>>
    IN  MkArr(tsh, LAMBDA i, j : full.v[<<sly[1] + i, slx[1] + j>>] + BCast(b, tsh, i, j))

\* full after full[sly, slx] = w.
SliceStore(full, sly, slx, w) ==
    [sh |-> full.sh,
     v  |-> [p \in DOMAIN full.v |->
                IF /\ p[1] >= sly[1] /\ p[1] < sly[2]
                   /\ p[2] >= slx[1] /\ p[2] < slx[2]
                THEN w.v[<<p[1] - sly[1], p[2] - slx[1]>>]
                ELSE full.v[p]]]

\* full[sly, slx] += b.  Result: [raised, arr].
SliceIAdd(full, sly, slx, b) ==
    IF ~CanIAdd(<<sly[2] - sly[1], slx[2] - slx[1]>>, b.sh)
    THEN [raised |-> TRUE, arr |-> full]
    ELSE [raised |-> FALSE,
          arr |-> SliceStore(full, sly, slx, SliceSum(full, sly, slx, b))]

-----------------------------------------------------------------------------
(* The grism configuration object (grismconf.aXeConf) and the numeric       *)
(* primitives of utils_c: external collaborators, modelled from their       *)
(* interface contracts.                                                     *)

\* self.conf.beams: the configured spectral orders, in order.
conf_beams == <<"A", "B">>

\* self.conf.dxlam[beam]: the contiguous dispersion offsets of an order.
conf_dxlam(bm) == IF bm = "A" THEN <<0, 1>> ELSE <<0 - 3, 0 - 2>>

\* self.conf.conf['MMAG_EXTRACT_<beam>']: faint limit of an order.
conf_mmag_extract(bm) == IF bm = "A" THEN 30 ELSE 24

\* self.conf.sens[beam]: throughput curve, WAVELENGTH ascending.
conf_sens(bm) ==
    IF bm = "A"
    THEN [WAVELENGTH |-> <<8, 10, 11, 14>>, SENSITIVITY |-> <<1, 2, 1, 1>>]
    ELSE [WAVELENGTH |-> <<9, 12, 13, 16>>, SENSITIVITY |-> <<1, 1, 2, 1>>]

\* Whether the configuration has the entry of an order: the dispersion
\* offsets (conf.dxlam[beam]), the throughput curve (conf.sens[beam]) or
\* the faint limit (conf.conf['MMAG_EXTRACT_<beam>']).  These are
\* dictionaries: looking up a missing entry raises KeyError.  Orders A and
\* B are fully calibrated; C has no offsets, D no curve, E no faint limit.
conf_defines(entry, bm) ==
    CASE entry = "dxlam" -> bm # "C"
      [] entry = "sens"  -> bm # "D"
      [] entry = "mmag"  -> bm # "E"

\* conf.get_beam_trace at offset dx - 0.5: twice the trace y position, and
\* the wavelength.  Order A rises by half a pixel per column with
\* increasing wavelength; order B lies lower, with decreasing wavelength.
get_beam_trace_y2(bm, dx) == IF bm = "A" THEN dx - 2 ELSE dx - 1
get_beam_trace_lam(bm, dx) == IF bm = "A" THEN 10 + dx ELSE 10 - dx

\* interp.interp_conserve_c(x, xp, fp) at one point: the value of the
\* tabulated curve in the bin holding x, zero outside the tabulated range.
interp_conserve_c(x, xp, fp) ==
    IF Len(xp) = 0 \/ x < xp[1] \/ x > xp[Len(xp)] THEN 0
    ELSE LET k == CHOOSE i \in 1..Len(xp) :
                     /\ xp[i] <= x
                     /\ \A j \in 1..Len(xp) : xp[j] <= x => j <= i
         IN  fp[k]

\* np.argsort of a sequence (stable): so[r] is the index of the r-th
\* smallest element.  A variant that leaves the order alone comes first.
ArgSort_in_place_order(s) == [r \in 1..Len(s) |-> r]

ArgSort(s) ==
    LET rank(k) == Cardinality({j \in 1..Len(s) :
                        s[j] < s[k] \/ (s[j] = s[k] /\ j < k)}) + 1
    IN  [r \in 1..Len(s) |-> CHOOSE k \in 1..Len(s) : rank(k) = r]

\* A 1D template [wave, flux], or None.
NoneSpec == [none |-> TRUE, wave |-> <<>>, flux |-> <<>>]
MkSpec(w, f) == [none |-> FALSE, wave |-> w, flux |-> f]

\* disperse.disperse_grism_object: for every thumbnail pixel of the object,
\* split its flux between flat_index and flat_index + stride in proportion
\* (1 - yfrac, yfrac), scaled by the weight of the anchor, and add it into
\* the flat output buffer; targets outside the buffer are dropped.
disperse_grism_object(thumb, seg, id, flat_index, yfrac2, ysens, outdata, x0, sh_beam) ==
    LET n  == sh_beam[1] * sh_beam[2]
        px == {p \in DOMAIN thumb.v : seg.v[p] = id}
        K  == DOMAIN flat_index
        tg(p, k) == flat_index[k] + (p[1] - x0[1]) * sh_beam[2] + (p[2] - x0[2])
        hits == px \X K
        part(t) == [h \in hits |->
                      LET p == h[1]
                          k == h[2]
                      IN  thumb.v[p] * ysens[k] *
                            ((IF tg(p, k) = t THEN 2 - yfrac2[k] ELSE 0)
                             + (IF tg(p, k) + sh_beam[2] = t THEN yfrac2[k] ELSE 0))]
    IN  [t \in 0..(n - 1) |-> outdata[t] + SumOver(part(t), hits)]

-----------------------------------------------------------------------------
(* GrismDisperser                                                           *)

\* Bias added and subtracted around the integer cast of the trace.
TraceBias == 20

\* dyc of line 212 for the trace position yt2/2:
\* np.cast[int](ytrace_beam + 20) - 20 + 1.
integer_trace(yt2) == IntCast(yt2 + 2 * TraceBias, 2) - TraceBias + 1

\* Twice yfrac_beam of line 215: ytrace_beam - np.floor(ytrace_beam).
fractional_trace2(yt2) == yt2 - 2 * (yt2 \div 2)

\* self.slx_parent of lines 277-278: the columns of the parent array from
\* that of dxfull[0] to that of dxfull[-1], the last one included.  A
\* variant that stops before the last column comes first.
slx_parent_open(origin, dxfull, x0) ==
    <<origin[2] + dxfull[0] + x0[2],
      origin[2] + dxfull[Cardinality(DOMAIN dxfull) - 1] + x0[2]>>

slx_parent(origin, dxfull, x0) ==
    <<origin[2] + dxfull[0] + x0[2],
      origin[2] + dxfull[Cardinality(DOMAIN dxfull) - 1] + x0[2] + 1>>

\* GrismDisperser.__init__ (pad = 0, grow = 1, xcenter = ycenter = 0).
\* direct and segmentation are 2D arrays of the same shape.  The result has
\* raised = TRUE when the constructor raises: KeyError from conf.dxlam
\* (line 198) or conf.sens (line 221), IndexError from the flat_index
\* lookup.
GrismDisperser(id, direct, segmentation, origin, bm) ==
    LET sh      == direct.sh
        dx      == conf_dxlam(bm)
        NX      == Len(dx)
        K       == 1..NX
        yt2     == [k \in K |-> get_beam_trace_y2(bm, dx[k])]
        lamb    == [k \in K |-> get_beam_trace_lam(bm, dx[k])]
        dyc     == [k \in K |-> integer_trace(yt2[k])]
        yfrac2  == [k \in K |-> fractional_trace2(yt2[k])]
        so      == ArgSort(lamb)
        sens    == conf_sens(bm)
        ys0     == [k \in K |->
                      LET r == CHOOSE q \in K : so[q] = k
                      IN  interp_conserve_c(lamb[so[r]], sens.WAVELENGTH,
                                            sens.SENSITIVITY)]
        dl      == [k \in K |-> IF k = 1 THEN Abs(lamb[2] - lamb[1])
                                ELSE Abs(lamb[k] - lamb[k - 1])]
        sh_beam == <<sh[1], sh[2] + NX>>
        x0      == <<sh[1] \div 2, sh[2] \div 2>>
        dxpix   == [k \in K |-> dx[k] - dx[1] + x0[2]]
        rowi    == [k \in K |-> dyc[k] + x0[1]]
        bad     == \E k \in K :
                      \/ rowi[k] < 0 - sh_beam[1] \/ rowi[k] >= sh_beam[1]
                      \/ dxpix[k] < 0 - sh_beam[2] \/ dxpix[k] >= sh_beam[2]
        dxfull  == [c \in 0..(sh_beam[2] - 1) |-> c + dx[1] - x0[2]]
    IN  [raised           |-> \/ ~conf_defines("dxlam", bm)
                                 \/ ~conf_defines("sens", bm)
                                 \/ bad,
         id               |-> id,
         origin           |-> origin,
         direct           |-> direct,
         sh               |-> sh,
         seg              |-> segmentation,
         beam             |-> bm,
         dx               |-> dx,
         ytrace_beam      |-> yt2,
         lam_beam         |-> lamb,
         yfrac_beam       |-> yfrac2,
         lam_sort         |-> so,
         sensitivity_beam |-> [k \in K |-> ys0[k] * dl[k]],
         NX               |-> NX,
         sh_beam          |-> sh_beam,
         modelf           |-> [t \in 0..(sh_beam[1] * sh_beam[2] - 1) |-> 0],
         nonfinite        |-> {},
         x0               |-> x0,
         flat_index       |-> IF bad THEN [k \in K |-> 0]
                              ELSE [k \in K |->
                                      (rowi[k] % sh_beam[1]) * sh_beam[2]
                                        + (dxpix[k] % sh_beam[2])],
         dxfull           |-> dxfull,
         total_flux       |-> SumOver([p \in DOMAIN direct.v |->
                                          IF segmentation.v[p] = id
                                          THEN direct.v[p] ELSE 0],
                                      DOMAIN direct.v),
         slx_parent       |-> slx_parent(origin, dxfull, x0),
         sly_parent       |-> <<origin[1], origin[1] + sh[1]>>,
         spectrum_1d      |-> NoneSpec,
         optimal_profile  |-> [none |-> TRUE, sh |-> <<0, 0>>, v |-> <<>>]]

\* self.model: the 2D view of the flat buffer self.modelf.
Model2D(b) == MkArr(b.sh_beam, LAMBDA i, j : b.modelf[i * b.sh_beam[2] + j])

\* An id argument of None.
NoId == 0 - 1

\* An optional ndarray argument that is None.
NoneArr == [none |-> TRUE, sh |-> <<0, 0>>, v |-> <<>>]
Some(a) == [none |-> FALSE, sh |-> a.sh, v |-> a.v]

\* compute_model, the statements before the thumbnail check: the id is
\* stored, and an in-place call records the template and multiplies the
\* buffer by zero (line 338), which makes every finite cell zero and leaves
\* a cell that is not finite as it is (nonfinite: the flat indices of the
\* cells holding NaN, whose entry in modelf has no meaning).
\* A variant that also sorts the anchor wavelengths in place, as a careless
\* rewrite of the argsort-based resampling would.
compute_model_enter_sorting(b, id, spectrum_1d, in_place) ==
    LET id1 == IF id = NoId THEN b.id ELSE id
        b1  == [b EXCEPT !.id = id1,
                         !.lam_beam = [r \in 1..b.NX |-> b.lam_beam[b.lam_sort[r]]]]
    IN  IF in_place
        THEN [b1 EXCEPT !.spectrum_1d = spectrum_1d,
                        !.modelf = [t \in DOMAIN b.modelf |-> 0]]
        ELSE b1

compute_model_enter(b, id, spectrum_1d, in_place) ==
    LET id1 == IF id = NoId THEN b.id ELSE id
        b1  == [b EXCEPT !.id = id1]
    IN  IF in_place
        THEN [b1 EXCEPT !.spectrum_1d = spectrum_1d,
                        !.modelf = [t \in DOMAIN b.modelf |-> 0]]
        ELSE b1

\* A template whose flux is NaN at the tabulated points nan.
MkSpecNaN(w, f, nan) == [none |-> FALSE, wave |-> w, flux |-> f, nan |-> nan]

\* The anchors whose weight self.sensitivity_beam * scale_spec is NaN: those
\* whose wavelength falls in a bin of the template where the flux is NaN.
nonfinite_anchors(b, spectrum_1d) ==
    IF "nan" \notin DOMAIN spectrum_1d THEN {}
    ELSE {k \in 1..b.NX :
            /\ b.lam_beam[k] >= spectrum_1d.wave[1]
            /\ b.lam_beam[k] <= spectrum_1d.wave[Len(spectrum_1d.wave)]
            /\ \E i \in spectrum_1d.nan :
                  /\ spectrum_1d.wave[i] <= b.lam_beam[k]
                  /\ \A j \in 1..Len(spectrum_1d.wave) :
                        spectrum_1d.wave[j] <= b.lam_beam[k] => j <= i}

\* The cells of the flat buffer to which disperse_grism_object adds NaN:
\* the targets, for the pixels of the object, of the anchors of K.
nonfinite_targets(b, id, thumb, K) ==
    {t \in DOMAIN b.modelf :
        \E p \in {q \in DOMAIN thumb.v : b.seg.v[q] = id}, k \in K :
            LET tg == b.flat_index[k] + (p[1] - b.x0[1]) * b.sh_beam[2]
                        + (p[2] - b.x0[2])
            IN  tg = t \/ tg + b.sh_beam[2] = t}

\* self.sensitivity_beam * scale_spec: the anchor weights for a template
\* (resampled on the sorted anchor wavelengths), or for a flat spectrum.
\* A variant that ignores the template and doubles the weights comes
\* first.
scaled_sensitivity_doubled(b, spectrum_1d) ==
    [k \in 1..b.NX |-> 2 * b.sensitivity_beam[k]]

scaled_sensitivity(b, spectrum_1d) ==
    LET K == 1..b.NX
        scale_spec ==
            IF spectrum_1d.none THEN [k \in K |-> 1]
            ELSE [k \in K |->
                    LET r == CHOOSE q \in K : b.lam_sort[q] = k
                    IN  interp_conserve_c(b.lam_beam[b.lam_sort[r]],
                                          spectrum_1d.wave, spectrum_1d.flux)]
    IN  [k \in K |-> b.sensitivity_beam[k] * scale_spec[k]]

\* GrismDisperser.compute_model(id, thumb, spectrum_1d, in_place) with
\* outdata = None.  Result: [ret, b, out]: ret is "True", "False" or
\* "array"; b is the object afterwards; out the returned flat array.
compute_model(b, id, thumb, spectrum_1d, in_place) ==
    LET b3   == compute_model_enter(b, id, spectrum_1d, in_place)
        zero == [t \in DOMAIN b.modelf |-> 0]
        th   == IF thumb.none THEN b.direct ELSE [sh |-> thumb.sh, v |-> thumb.v]
        out  == disperse_grism_object(th, b.seg, b3.id, b.flat_index, b.yfrac_beam,
                    scaled_sensitivity(b, spectrum_1d), zero, b.x0, b.sh_beam)
    IN  IF ~thumb.none /\ thumb.sh # b.sh
        THEN [ret |-> "False", b |-> b3, out |-> zero]
        ELSE IF in_place
             THEN [ret |-> "True",
                   b |-> [b3 EXCEPT
                            !.modelf = out,
                            !.nonfinite = @ \cup nonfinite_targets(
                                b, b3.id, th, nonfinite_anchors(b, spectrum_1d))],
                   out |-> zero]
             ELSE [ret |-> "array", b |-> b3, out |-> out]

\* GrismDisperser.contained_in_full_array
contained_in_full_array(b, full) ==
    IF b.sly_parent[1] < 0 \/ b.slx_parent[1] < 0 THEN FALSE
    ELSE IF b.sly_parent[2] >= full.sh[1] \/ b.slx_parent[2] >= full.sh[2] THEN FALSE
    ELSE TRUE

\* The clipped sub-window computed by add_to_full_image and
\* cutout_from_full_image when the footprint is not contained: the local
\* rows and columns kept (oky, okx, as index sequences) and the detector
\* slices sly, slx.
SubWindow(b, full) ==
    LET sh   == full.sh
        xpix == [c \in 0..(b.sh_beam[2] - 1) |-> c + b.origin[2] + b.dxfull[0] + b.x0[2]]
        ypix == [r \in 0..(b.sh_beam[1] - 1) |-> r + b.origin[1]]
        okxs == {c \in DOMAIN xpix : xpix[c] >= 0 /\ xpix[c] < sh[2]}
        okys == {r \in DOMAIN ypix : ypix[r] >= 0 /\ ypix[r] < sh[2]}
        lo(S) == CHOOSE m \in S : \A o \in S : m <= o
        hi(S) == CHOOSE m \in S : \A o \in S : m >= o
    IN  IF okxs = {} \/ okys = {}
        THEN [empty |-> TRUE, oky |-> <<>>, okx |-> <<>>, sly |-> <<0, 0>>, slx |-> <<0, 0>>]
        ELSE [empty |-> FALSE,
              oky   |-> RangeSeq(lo(okys), hi(okys) + 1),
              okx   |-> RangeSeq(lo(okxs), hi(okxs) + 1),
              sly   |-> NpSlice(ypix[lo(okys)], ypix[hi(okys)] + 1, sh[1]),
              slx   |-> NpSlice(xpix[lo(okxs)], xpix[hi(okxs)] + 1, sh[2])]

\* The window add_to_full_image adds to, and what it adds there: the
\* parent slices and data when the footprint is contained, else the
\* clipped sub-window and the rows and columns of data kept; status is
\* "False" when nothing is kept, "raise" when the shapes do not broadcast.
add_target(b, data, full) ==
    LET w == SubWindow(b, full)
        t == IF contained_in_full_array(b, full)
             THEN [status |-> "True",
                   sly |-> NpSlice(b.sly_parent[1], b.sly_parent[2], full.sh[1]),
                   slx |-> NpSlice(b.slx_parent[1], b.slx_parent[2], full.sh[2]),
                   data |-> data]
             ELSE IF w.empty
             THEN [status |-> "False", sly |-> <<0, 0>>, slx |-> <<0, 0>>, data |-> data]
             ELSE [status |-> "True", sly |-> w.sly, slx |-> w.slx,
                   data |-> Take(data, w.oky, w.okx)]
    IN  IF t.status = "True"
           /\ ~CanIAdd(<<t.sly[2] - t.sly[1], t.slx[2] - t.slx[1]>>, t.data.sh)
        THEN [t EXCEPT !.status = "raise"]
        ELSE t

\* GrismDisperser.add_to_full_image(data, full_array).  Result:
\* [status, full]: status is "True", "False" or "raise" (ValueError from
\* the in-place add of arrays that do not broadcast).
add_to_full_image(b, data, full) ==
    LET t == add_target(b, data, full)
    IN  IF t.status = "True"
        THEN [status |-> "True", full |-> SliceIAdd(full, t.sly, t.slx, t.data).arr]
        ELSE [status |-> t.status, full |-> full]

\* GrismDisperser.cutout_from_full_image(full_array).  Result:
\* [status, data]: status is "array", "False" or "raise".  In the clipped
\* branch the in-place add acts on data[oky,:][:,okx], which is a copy made
\* by the boolean-mask index, so the returned array keeps its zeros.
cutout_from_full_image(b, full) ==
    IF contained_in_full_array(b, full)
    THEN [status |-> "array",
          data |-> Take(full, RangeSeq(b.sly_parent[1], b.sly_parent[2]),
                              RangeSeq(b.slx_parent[1], b.slx_parent[2]))]
    ELSE LET w == SubWindow(b, full)
         IN  IF w.empty THEN [status |-> "False", data |-> Zeros(<<0, 0>>)]
             ELSE LET tmp == <<Len(w.oky), Len(w.okx)>>
                      src == <<w.sly[2] - w.sly[1], w.slx[2] - w.slx[1]>>
                  IN  IF CanIAdd(tmp, src)
                      THEN [status |-> "array", data |-> Zeros(b.sh_beam)]
                      ELSE [status |-> "raise", data |-> Zeros(<<0, 0>>)]

\* GrismDisperser.optimal_extract(data, bin, ivar): control flow and effect
\* on the object.  data_sh is data.shape (a tuple of any rank); ivar_kind
\* is "default" (the argument left at 1.), "float" (a Python float), "int"
\* (a Python int) or "ndarray", with ivar_sh its shape.  Result: [status, b, nout]: status is
\* "spectrum" (wave, flux, rms of nout bins each), "False", or "raise"
\* (IndexError from formatting the message of a shape of rank < 2, or
\* AttributeError from the shape of an int).  optimal_profile holds the
\* clipped flat-spectrum model, whose columns the code normalises.
optimal_extract(b, data_sh, bin, ivar_kind, ivar_sh) ==
    LET cm == compute_model(b, b.id, NoneArr, NoneSpec, FALSE)
        b1 == IF b.optimal_profile.none
              THEN [cm.b EXCEPT !.optimal_profile =
                      [none |-> FALSE, sh |-> b.sh_beam,
                       v |-> [p \in Idx(b.sh_beam) |->
                                Max(cm.out[p[1] * b.sh_beam[2] + p[2]], 0)]]]
              ELSE b
        W  == b.sh_beam[2]
        nout == IF bin > 1
                THEN Cardinality({c \in 0..(W - 1) :
                                    c >= bin \div 2 /\ (c - bin \div 2) % bin = 0})
                ELSE W
    IN  IF data_sh # b.sh_beam
        THEN [status |-> IF Len(data_sh) < 2 THEN "raise" ELSE "False",
              b |-> b1, nout |-> 0]
        ELSE IF ivar_kind = "int"
        THEN [status |-> "raise", b |-> b1, nout |-> 0]
        ELSE IF ivar_kind = "ndarray" /\ ivar_sh # b.sh_beam
        THEN [status |-> IF Len(ivar_sh) < 2 THEN "raise" ELSE "False",
              b |-> b1, nout |-> 0]
        ELSE [status |-> "spectrum", b |-> b1, nout |-> nout]

-----------------------------------------------------------------------------
(* GrismFLT: the detector frame and the per-object model cache              *)

\* Side of the square detector frame of an exposure.
FltSize == 5

\* self.catalog = None (line 1295).
NoCatalog == [none |-> TRUE, rows |-> <<>>]

\* An exposure: self.direct.data['SCI'], the direct image (data['REF'] is
\* None, pad = 0, direct.origin = [0, 0]), and self.seg, the segmentation
\* map.  Object 1 occupies (r+1,1) and (r+2,1), object 2 occupies (r+2,2)
\* and (r+3,2); no pixel belongs to object 3.  There is no catalog, and
\* the configuration lists the orders conf_beams.
Frame(sh, r) ==
    [direct  |-> MkArr(sh, LAMBDA i, j : 1 + ((i + 2 * j) % 3)),
     seg     |-> MkArr(sh, LAMBDA i, j :
                    IF <<i, j>> \in {<<r + 1, 1>>, <<r + 2, 1>>} THEN 1
                    ELSE IF <<i, j>> \in {<<r + 2, 2>>, <<r + 3, 2>>} THEN 2
                    ELSE 0),
     row     |-> r,
     catalog |-> NoCatalog,
     beams   |-> conf_beams]

\* The exposures considered: a square frame, and a frame with more rows
\* than columns whose objects lie in rows beyond the column count.
Frames == {Frame(<<FltSize, FltSize>>, 0), Frame(<<FltSize + 1, FltSize - 1>>, 2)}
NoFrame == Frame(<<0, 0>>, 0)

\* disperse.compute_segmentation_limits(seg, id, weight, shape): bounding
\* box, flux-weighted centroid (y = yn/den, x = xn/den), area and summed
\* flux of the pixels of seg equal to id; area 0 when there is none.
compute_segmentation_limits(seg, id, weight) ==
    LET px == {p \in DOMAIN seg.v : seg.v[p] = id}
        lo(S) == CHOOSE m \in S : \A o \in S : m <= o
        hi(S) == CHOOSE m \in S : \A o \in S : m >= o
        ys == {p[1] : p \in px}
        xs == {p[2] : p \in px}
    IN  IF px = {}
        THEN [ymin |-> 0, ymax |-> 0, yn |-> 0, xmin |-> 0, xmax |-> 0, xn |-> 0,
              den |-> 0, area |-> 0, flux |-> 0]
        ELSE [ymin |-> lo(ys), ymax |-> hi(ys),
              yn   |-> SumOver([p \in px |-> p[1] * weight.v[p]], px),
              xmin |-> lo(xs), xmax |-> hi(xs),
              xn   |-> SumOver([p \in px |-> p[2] * weight.v[p]], px),
              den  |-> SumOver([p \in px |-> weight.v[p]], px),
              area |-> Cardinality(px),
              flux |-> SumOver([p \in px |-> weight.v[p]], px)]

\* int(np.round(n/d)) for d > 0: round half to even.
RoundInt(n, d) ==
    LET q == n \div d
        r == n - q * d
    IN  IF 2 * r < d THEN q
        ELSE IF 2 * r > d THEN q + 1
        ELSE IF q % 2 = 0 THEN q ELSE q + 1

\* int(np.ceil(n/d)) for d > 0.
CeilInt(n, d) == 0 - ((0 - n) \div d)

\* A registry entry: no entry, the stored beams (an OrderedDict), or only
\* the stored template (which may be None).
Absent        == [kind |-> "absent", beams |-> <<>>, spec |-> NoneSpec]
Computed(bs)  == [kind |-> "beams", beams |-> bs, spec |-> NoneSpec]
Uncomputed(t) == [kind |-> "spec", beams |-> <<>>, spec |-> t]

\* The ids that may be asked for.
AllIds == {1, 2, 3}

\* get_beams = None.
NoBeams == [none |-> TRUE, names |-> <<>>]

\* Thumbnail location and size chosen at lines 1538-1600.  Result:
\* [ret, yc, xc, size]: ret is "cut" when a thumbnail is to be cut, or the
\* early return value "False" / "True".  A catalog row is <<y_flt, x_flt>>;
\* with a catalog the thumbnail is centred on the catalog position.
thumbnail_box(f, a) ==
    LET out == compute_segmentation_limits(f.seg, a.id, f.direct)
        uselim == a.compute_size \/ a.pos_none
        incat == ~f.catalog.none /\ a.id \in DOMAIN f.catalog.rows
        ycat == IF incat THEN f.catalog.rows[a.id][1] - 1 ELSE 0
        xcat == IF incat THEN f.catalog.rows[a.id][2] - 1 ELSE 0
        yn == IF uselim THEN out.yn ELSE a.y
        xn == IF uselim THEN out.xn ELSE a.x
        d  == IF uselim THEN out.den ELSE 1
        size0 == CeilInt(Max(Max(xn - out.xmin * d, out.xmax * d - xn),
                             Max(yn - out.ymin * d, out.ymax * d - yn)), d) + 4
        size1 == Max(Max(size0, 16), 26)
        size2 == Min(Min(size1, IntCast(xn, d) - 2), IntCast(yn, d) - 2)
    IN  IF ~f.catalog.none /\ ~incat
        THEN [ret |-> "False", yc |-> 0, xc |-> 0, size |-> 0]
        ELSE IF uselim /\ (out.area = 0 \/ out.den = 0)
        THEN [ret |-> "False", yc |-> 0, xc |-> 0, size |-> 0]
        ELSE IF uselim /\ (\/ out.ymax < 0 - 5
                           \/ out.ymin > f.direct.sh[1] + 5
                           \/ out.xmin = 0 \/ out.ymax = f.direct.sh[1]
                           \/ out.xmax = f.direct.sh[2])
        THEN [ret |-> "True", yc |-> 0, xc |-> 0, size |-> 0]
        ELSE IF a.compute_size /\ size2 < 4
        THEN [ret |-> "True", yc |-> 0, xc |-> 0, size |-> 0]
        ELSE [ret |-> "cut",
              yc |-> IF incat THEN RoundInt(ycat, 1) + 1 ELSE RoundInt(yn, d) + 1,
              xc |-> IF incat THEN RoundInt(xcat, 1) + 1 ELSE RoundInt(xn, d) + 1,
              size |-> IF a.compute_size THEN size2 ELSE a.size]

\* A local variable: F applied to the value of v, v being computed once.
Bind(v, F(_)) == CHOOSE out \in {F(y) : y \in {z \in {v} : z = z}} : TRUE

\* Whether a beam built for an id gets its model computed from the registry
\* entry (lines 1631-1634).  A variant that never does comes first.
old_model_rebuilt_never(entry) == FALSE

old_model_rebuilt(entry) == entry.kind # "absent"

\* The beams built at lines 1613-1634 for the names asked for: an order
\* fainter than its limit is skipped, an order whose constructor raises is
\* skipped, and for an id already in the registry the new beam's model is
\* computed from the registry entry (the stored template).
RECURSIVE build_beams(_, _, _, _, _, _, _)
build_beams(names, i, a, thumb, seg_thumb, origin, entry) ==
    IF i > Len(names) THEN <<>>
    ELSE IF a.mag > conf_mmag_extract(names[i])
    THEN build_beams(names, i + 1, a, thumb, seg_thumb, origin, entry)
    ELSE Bind(GrismDisperser(a.id, thumb, seg_thumb, origin, names[i]),
              LAMBDA b :
                IF b.raised
                THEN build_beams(names, i + 1, a, thumb, seg_thumb, origin, entry)
                ELSE <<IF old_model_rebuilt(entry)
                       THEN compute_model(b, a.id, NoneArr, entry.spec, TRUE).b
                       ELSE b>>
                     \o build_beams(names, i + 1, a, thumb, seg_thumb, origin, entry))

\* One pass of the loop of lines 1656-1665 for beam i.  st = [output, beams,
\* log, raised]: the array written, the beam objects, the additions made
\* to the array so far, and whether an exception ended the loop.
orders_step(st, i, a, subtract) ==
    Bind(IF subtract
         THEN add_to_full_image(st.beams[i], Neg(Model2D(st.beams[i])), st.output)
         ELSE [status |-> "skip", full |-> st.output],
      LAMBDA s1 :
        Bind(compute_model(st.beams[i], a.id, NoneArr, a.spectrum_1d, TRUE).b,
          LAMBDA nb :
            Bind(add_to_full_image(nb, Model2D(nb), s1.full),
              LAMBDA s2 :
                LET log1 == IF subtract
                            THEN Append(st.log,
                                        [op |-> "sub", beam |-> st.beams[i].beam,
                                         data |-> Model2D(st.beams[i]),
                                         status |-> s1.status])
                            ELSE st.log
                    log2 == Append(log1, [op |-> "add", beam |-> nb.beam,
                                          data |-> Model2D(nb), status |-> s2.status])
                IN  IF s1.status = "raise"
                    THEN [st EXCEPT !.output = s1.full, !.log = log1, !.raised = TRUE]
                    ELSE IF s2.status = "raise"
                    THEN [st EXCEPT !.output = s1.full, !.beams[i] = nb, !.log = log2,
                                    !.raised = TRUE]
                    ELSE [st EXCEPT !.output = s2.full, !.beams[i] = nb,
                                    !.log = log2])))

\* The loop of lines 1656-1665 from beam i on.
RECURSIVE orders_loop(_, _, _, _)
orders_loop(st, i, a, subtract) ==
    IF i > Len(st.beams) \/ st.raised THEN st
    ELSE Bind(orders_step(st, i, a, subtract),
              LAMBDA st1 : orders_loop(st1, i + 1, a, subtract))

\* Whether the loop subtracts a beam's current model before recomputing
\* it (line 1660).  A variant that never subtracts comes first.
subtract_previous_never(object_in_model, in_place) == FALSE

subtract_previous(object_in_model, in_place) == object_in_model /\ in_place

\* The thumbnails cut at lines 1599-1603 for a box [yc, xc, size].
cut_thumbnails(f, box) ==
    LET sly == NpSlice(box.yc - box.size, box.yc + box.size, f.direct.sh[1])
        slx == NpSlice(box.xc - box.size, box.xc + box.size, f.direct.sh[2])
    IN  [origin |-> <<box.yc - box.size, box.xc - box.size>>,
         thumb |-> Take(f.direct, RangeSeq(sly[1], sly[2]), RangeSeq(slx[1], slx[2])),
         seg_thumb |-> Take(f.seg, RangeSeq(sly[1], sly[2]), RangeSeq(slx[1], slx[2]))]

\* Lines 1647-1670, the beams being known.  stored says that the registry
\* holds these very beam objects, which the loop updates.
orders_output(fmodel, registry, a, beams, stored, object_in_model) ==
    Bind(orders_loop([output |-> IF a.in_place THEN fmodel ELSE Zeros(fmodel.sh),
                      beams |-> beams, log |-> <<>>, raised |-> FALSE],
                     1, a, subtract_previous(object_in_model, a.in_place)),
      LAMBDA st :
        [ret |-> IF st.raised THEN "raise"
                 ELSE IF a.in_place THEN "True" ELSE "beams_output",
         model |-> IF a.in_place THEN st.output ELSE fmodel,
         object_dispersers |->
            IF stored THEN [registry EXCEPT ![a.id] = Computed(st.beams)]
            ELSE registry,
         log |-> st.log,
         output |-> IF a.in_place THEN Zeros(<<0, 0>>) ELSE st.output])

\* The test of lines 1606-1608: the id has no pixel in the thumbnail.
\* A variant that never finds the id missing comes first.
absent_from_thumbnail_never(test_area) == FALSE

absent_from_thumbnail(test_area) == test_area = 0

\* Lines 1523-1645 of compute_model_orders: the beams of the object, taken
\* from the registry or built on a thumbnail, and the registry with the
\* entry an in-place call stores.  Result: [ret, beams, registry, stored]:
\* ret is "go", or the early return value "True", "False" or "beams", or
\* "raise" (KeyError from the faint-limit lookup of line 1622, which every
\* order asked for goes through before anything is stored);
\* stored says that the registry holds these very beam objects.
orders_prepare(f, registry, a) ==
    LET entry == registry[a.id]
        names == IF a.get_beams.none THEN f.beams ELSE a.get_beams.names
        stop(r) == [ret |-> r, beams |-> <<>>, registry |-> registry, stored |-> FALSE]
    IN  IF entry.kind = "beams"
        THEN [ret |-> "go", beams |-> entry.beams, registry |-> registry,
              stored |-> TRUE]
        ELSE Bind(thumbnail_box(f, a),
          LAMBDA box :
            IF box.ret # "cut" THEN stop(box.ret)
            ELSE Bind(cut_thumbnails(f, box),
              LAMBDA c :
                IF absent_from_thumbnail(
                       compute_segmentation_limits(c.seg_thumb, a.id, c.thumb).area)
                THEN stop("False")
                ELSE IF \E i \in 1..Len(names) : ~conf_defines("mmag", names[i])
                THEN stop("raise")
                ELSE IF ~a.get_beams.none /\ Len(a.get_beams.names) > 0
                THEN stop("beams")
                ELSE Bind(build_beams(names, 1, a, c.thumb, c.seg_thumb, c.origin, entry),
                  LAMBDA beams :
                    [ret |-> "go", beams |-> beams,
                     registry |->
                        IF a.in_place
                        THEN [registry EXCEPT ![a.id] =
                                IF a.store THEN Computed(beams)
                                ELSE Uncomputed(a.spectrum_1d)]
                        ELSE registry,
                     stored |-> a.in_place /\ a.store])))

\* GrismFLT.compute_model_orders.  a: the arguments
\* [id, pos_none, y, x, size, mag, spectrum_1d, compute_size, store,
\* in_place, get_beams].  Result: [ret, model, object_dispersers, log,
\* output]: ret is "True", "False", "beams" (the get_beams return),
\* "beams_output" (the in_place = False return) or "raise".
compute_model_orders(f, fmodel, registry, a) ==
    Bind(orders_prepare(f, registry, a),
      LAMBDA pr :
        IF pr.ret # "go"
        THEN [ret |-> pr.ret, model |-> fmodel, object_dispersers |-> registry,
              log |-> <<>>, output |-> Zeros(<<0, 0>>)]
        ELSE orders_output(fmodel, pr.registry, a, pr.beams, pr.stored,
                           registry[a.id].kind # "absent"))

-----------------------------------------------------------------------------
(* Stand-alone GrismDisperser objects and detector arrays                   *)

\* Largest detector axis, largest thumbnail axis and the number of
\* stand-alone operations explored.
MaxDet   == 4
MaxThumb == 2
MaxOps   == 2

\* Direct-image thumbnail and segmentation thumbnail of a given shape:
\* pixel (0, 0) belongs to object 1, every other pixel to object 2.
ThumbOf(sh) == MkArr(sh, LAMBDA i, j : 1 + i + j)
SegOf(sh)   == MkArr(sh, LAMBDA i, j : IF i = 0 /\ j = 0 THEN 1 ELSE 2)

\* A detector array with distinguishable nonzero pixels.
DetOf(sh) == MkArr(sh, LAMBDA i, j : 10 + 3 * i + j)

\* A spectrum cutout with distinguishable nonzero pixels.
Ramp(sh) == MkArr(sh, LAMBDA i, j : 1 + i * sh[2] + j)

T1 == MkSpec(<<9, 10, 11, 12, 13, 14>>, <<1, 2, 1, 0, 2, 1>>)
T2 == MkSpec(<<10, 11, 12, 13>>, <<1, 0, 3, 1>>)
Templates == {NoneSpec, T1, T2}

NoArg == [id |-> 0, thumb_none |-> TRUE, thumb_sh |-> <<0, 0>>, in_place |-> FALSE,
          flat |-> TRUE, spectrum_1d |-> NoneSpec, data_sh |-> <<>>, ivar_kind |-> "none", ivar_sh |-> <<>>, bin |-> 0]

\* op: the operation; status: what it returned ("raise": an exception);
\* data: the array passed to add_to_full_image or returned by
\* cutout_from_full_image; before, dbefore: full_array and disp before the
\* operation; arg: the other arguments.
NoRes == [op |-> "none", status |-> "none", data |-> Zeros(<<0, 0>>),
          before |-> Zeros(<<0, 0>>), dbefore |-> <<>>, arg |-> NoArg]

\* No grism data, no BeamCutout and no redshift search.
NoGrism   == [none |-> TRUE]
NoCutout  == [none |-> TRUE]
NoSearch  == [pc |-> "none"]

CutIdle ==
    /\ grism = NoGrism
    /\ cutout = NoCutout
    /\ search = NoSearch

\* No concurrent callers.
RaceIdle ==
    /\ serialized = FALSE
    /\ holder = 0
    /\ writers = <<>>
    /\ CutIdle

\* GrismFLT state left untouched by the stand-alone specifications.
FltIdle ==
    /\ model = Zeros(<<0, 0>>)
    /\ object_dispersers = <<>>
    /\ frame = NoFrame
    /\ calls = <<>>
    /\ RaceIdle

\* Any detector shape, any thumbnail shape, any of the two orders and any
\* origin from well off the lower/left sides to off the upper/right sides.
InitImg ==
    /\ FltIdle
    /\ \E dsh \in (2..MaxDet) \X (2..MaxDet),
          tsh \in (1..MaxThumb) \X (1..MaxThumb),
          bm \in {"A", "B"},
          oy \in (0 - MaxThumb)..MaxDet,
          ox \in (0 - MaxThumb - 2)..(MaxDet + 3) :
          /\ disp = GrismDisperser(2, ThumbOf(tsh), SegOf(tsh), <<oy, ox>>, bm)
          /\ ~disp.raised
          /\ full_array = DetOf(dsh)
    /\ nops = 0
    /\ res = NoRes

AddToFullImage(data) ==
    /\ nops < MaxOps
    /\ LET r == add_to_full_image(disp, data, full_array)
       IN  /\ full_array' = r.full
           /\ res' = [op |-> "add", status |-> r.status, data |-> data,
                      before |-> full_array, dbefore |-> disp, arg |-> NoArg]
    /\ nops' = nops + 1
    /\ UNCHANGED <<disp, fltVars, raceVars, cutVars>>

CutoutFromFullImage ==
    /\ nops < MaxOps
    /\ LET r == cutout_from_full_image(disp, full_array)
       IN  res' = [op |-> "cutout", status |-> r.status, data |-> r.data,
                   before |-> full_array, dbefore |-> disp, arg |-> NoArg]
    /\ nops' = nops + 1
    /\ UNCHANGED <<disp, full_array, fltVars, raceVars, cutVars>>

NextImg ==
    \/ \E data \in {Ramp(disp.sh_beam), Neg(Ramp(disp.sh_beam))} : AddToFullImage(data)
    \/ CutoutFromFullImage

SpecImg == InitImg /\ [][NextImg]_vars

-----------------------------------------------------------------------------
(* Detector-frame transfer: claims C5, C6, C7 (checked under SpecImg)       *)

\* The beam's footprint on the detector: rows sly_parent, columns slx_parent.
InFootprint(b, p) ==
    /\ p[1] >= b.sly_parent[1] /\ p[1] < b.sly_parent[2]
    /\ p[2] >= b.slx_parent[1] /\ p[2] < b.slx_parent[2]

Overlaps(b, full) == \E p \in DOMAIN full.v : InFootprint(b, p)

\* C5: for a beam whose footprint does not overlap the detector array at
\* all, add_to_full_image and cutout_from_full_image both return False
\* without raising and leave the detector array unchanged, for every
\* detector shape and for footprints off any of the four sides.
C5_NoOverlapReturnsFalse ==
    (res.op \in {"add", "cutout"} /\ ~Overlaps(disp, res.before))
        => (res.status = "False" /\ full_array = res.before)

\* C6: for every footprint that overlaps the detector and every detector
\* shape, add_to_full_image returns True without raising, adds to each
\* detector pixel inside the footprint the corresponding pixel of data, and
\* leaves every detector pixel outside the footprint unchanged.
C6_AddPlacesDataOnFootprint ==
    (res.op = "add" /\ Overlaps(disp, res.before))
        => /\ res.status = "True"
           /\ full_array.sh = res.before.sh
           /\ \A p \in DOMAIN res.before.v :
                 full_array.v[p] =
                    res.before.v[p]
                    + (IF InFootprint(disp, p)
                       THEN res.data.v[<<p[1] - disp.sly_parent[1],
                                         p[2] - disp.slx_parent[1]>>]
                       ELSE 0)

\* C7: for every footprint that overlaps the detector,
\* cutout_from_full_image returns an array of the beam's 2D shape whose
\* pixels inside the detector equal the detector's values there and whose
\* other pixels are zero, and it does not modify the detector array.
C7_CutoutCopiesDetector ==
    (res.op = "cutout" /\ Overlaps(disp, res.before))
        => /\ res.status = "array"
           /\ res.data.sh = disp.sh_beam
           /\ \A q \in Idx(disp.sh_beam) :
                 LET p == <<q[1] + disp.sly_parent[1], q[2] + disp.slx_parent[1]>>
                 IN  res.data.v[q] = (IF p \in DOMAIN res.before.v
                                      THEN res.before.v[p] ELSE 0)
           /\ full_array = res.before

\* A footprint wholly above the top row of the detector was not reported
\* as missing the detector: the rows were compared with the column count.
C5_MissNotReported ==
    /\ res.op = "add"
    /\ ~Overlaps(disp, res.before)
    /\ disp.sly_parent[1] >= res.before.sh[1]
    /\ res.status # "False"

\* add_to_full_image raised for a footprint that overlaps the detector.
C6_OverlapRaises ==
    /\ res.op = "add"
    /\ Overlaps(disp, res.before)
    /\ res.status = "raise"

\* A cutout for a footprint that is not strictly inside the detector came
\* back all zero although the detector is nonzero under the footprint.
C7_CutoutLeftZero ==
    /\ res.op = "cutout"
    /\ res.status = "array"
    /\ \A q \in DOMAIN res.data.v : res.data.v[q] = 0
    /\ \E p \in DOMAIN res.before.v : InFootprint(disp, p) /\ res.before.v[p] # 0

-----------------------------------------------------------------------------
(* One GrismDisperser under every one of its operations (SpecBeam)          *)

\* An alternate thumbnail of the direct image's shape, and one of another
\* shape.
AltThumb(b) == MkArr(b.sh, LAMBDA i, j : 3 - i + j)
BadThumb(b) == MkArr(<<b.sh[1] + 1, b.sh[2]>>, LAMBDA i, j : 1)

InitBeam ==
    /\ FltIdle
    /\ \E bm \in {"A", "B"}, oy \in {1, MaxDet}, ox \in {0, 3} :
          /\ disp = GrismDisperser(2, ThumbOf(<<MaxThumb, MaxThumb>>),
                                   SegOf(<<MaxThumb, MaxThumb>>), <<oy, ox>>, bm)
          /\ ~disp.raised
          /\ full_array = DetOf(<<MaxDet + 1, MaxDet + 1>>)
    /\ nops = 0
    /\ res = NoRes

ComputeModel(id, thumb, spectrum_1d, in_place) ==
    /\ nops < MaxOps
    /\ LET r == compute_model(disp, id, thumb, spectrum_1d, in_place)
       IN  /\ disp' = r.b
           /\ res' = [op |-> "compute_model", status |-> r.ret,
                      data |-> MkArr(disp.sh_beam,
                                     LAMBDA i, j : r.out[i * disp.sh_beam[2] + j]),
                      before |-> full_array, dbefore |-> disp,
                      arg |-> [NoArg EXCEPT !.id = id, !.thumb_none = thumb.none,
                                            !.thumb_sh = thumb.sh,
                                            !.in_place = in_place,
                                            !.flat = spectrum_1d.none,
                                            !.spectrum_1d = spectrum_1d]]
    /\ nops' = nops + 1
    /\ UNCHANGED <<full_array, fltVars, raceVars, cutVars>>

OptimalExtract(data_sh, bin, ivar_kind, ivar_sh) ==
    /\ nops < MaxOps
    /\ LET r == optimal_extract(disp, data_sh, bin, ivar_kind, ivar_sh)
       IN  /\ disp' = r.b
           /\ res' = [op |-> "optimal_extract", status |-> r.status,
                      data |-> Zeros(<<1, r.nout>>),
                      before |-> full_array, dbefore |-> disp,
                      arg |-> [NoArg EXCEPT !.data_sh = data_sh, !.bin = bin,
                                            !.ivar_kind = ivar_kind,
                                            !.ivar_sh = ivar_sh]]
    /\ nops' = nops + 1
    /\ UNCHANGED <<full_array, fltVars, raceVars, cutVars>>

\* Shapes handed to optimal_extract: the beam's, another 2D shape, a 1D
\* shape and the shape () of a 0-d array.
OtherShape2D(b) == <<b.sh_beam[1] + 1, b.sh_beam[2]>>
Shape1D(b)      == <<b.sh_beam[2]>>

\* Argument combinations of compute_model: id, thumb, template, in_place.
ComputeModelArgs(b) ==
    ({NoId, 1} \X {NoneArr, Some(BadThumb(b))} \X {NoneSpec, T1} \X BOOLEAN)
    \cup ({NoId} \X {Some(AltThumb(b))} \X {T1, T2} \X BOOLEAN)

\* Argument combinations of optimal_extract: data.shape, bin, kind and
\* shape of ivar.
OptimalExtractArgs(b) ==
    ({b.sh_beam} \X {0} \X
        {<<"default", <<>>>>, <<"float", <<>>>>, <<"int", <<>>>>, <<"ndarray", b.sh_beam>>,
         <<"ndarray", OtherShape2D(b)>>, <<"ndarray", <<>>>>})
    \cup ({OtherShape2D(b), Shape1D(b)} \X {0} \X {<<"default", <<>>>>})
    \cup ({b.sh_beam} \X {2} \X {<<"default", <<>>>>, <<"ndarray", b.sh_beam>>})

NextBeam ==
    \/ \E a \in ComputeModelArgs(disp) : ComputeModel(a[1], a[2], a[3], a[4])
    \/ \E a \in OptimalExtractArgs(disp) : OptimalExtract(a[1], a[2], a[3][1], a[3][2])
    \/ \E data \in {Model2D(disp), Neg(Model2D(disp))} : AddToFullImage(data)
    \/ CutoutFromFullImage

SpecBeam == InitBeam /\ [][NextBeam]_vars

-----------------------------------------------------------------------------
(* GrismDisperser operations: claims C8, C9, C10 (checked under SpecBeam)   *)

\* C8: when compute_model is given an alternate thumbnail whose shape
\* differs from the direct image's, it returns False, in both in_place
\* modes, and the beam's model buffer, last template (spectrum_1d) and
\* object id are the same after the call as before it.
C8_ThumbMismatchNoMutation ==
    (/\ res.op = "compute_model"
     /\ ~res.arg.thumb_none
     /\ res.arg.thumb_sh # res.dbefore.sh)
        => /\ res.status = "False"
           /\ disp.modelf = res.dbefore.modelf
           /\ disp.spectrum_1d = res.dbefore.spectrum_1d
           /\ disp.id = res.dbefore.id

\* C9: optimal_extract returns False, without raising and without
\* returning a spectrum, whenever data has a shape different from the
\* beam's 2D shape or ivar is supplied (a scalar, of shape (), or an array)
\* with a shape different from it; the model and last template are then
\* unchanged.
C9_ExtractShapeMismatchFails ==
    (/\ res.op = "optimal_extract"
     /\ \/ res.arg.data_sh # res.dbefore.sh_beam
        \/ res.arg.ivar_kind # "default" /\ res.arg.ivar_sh # res.dbefore.sh_beam)
        => /\ res.status = "False"
           /\ disp.modelf = res.dbefore.modelf
           /\ disp.spectrum_1d = res.dbefore.spectrum_1d

\* An in-place compute_model refused a thumbnail of another shape after
\* zeroing a nonzero model and replacing the last template.
C8_RefusedAfterMutation ==
    /\ res.op = "compute_model"
    /\ ~res.arg.thumb_none /\ res.arg.thumb_sh # res.dbefore.sh
    /\ res.arg.in_place
    /\ res.status = "False"
    /\ \E t \in DOMAIN res.dbefore.modelf : res.dbefore.modelf[t] # 0
    /\ \A t \in DOMAIN disp.modelf : disp.modelf[t] = 0
    /\ disp.spectrum_1d # res.dbefore.spectrum_1d

\* optimal_extract raised: for an integer ivar, for a 0-d array ivar, or
\* for data that is not 2D.
C9_ExtractRaises ==
    /\ res.op = "optimal_extract"
    /\ res.status = "raise"
    /\ \/ res.arg.ivar_kind = "int"
       \/ res.arg.ivar_kind = "ndarray" /\ res.arg.ivar_sh = <<>>
       \/ Len(res.arg.data_sh) = 1

\* C10: no operation of a constructed GrismDisperser changes its flat_index
\* table, fractional row offsets, anchor wavelengths, anchor sensitivity,
\* 2D shape or parent slices.
C10_GeometryImmutable ==
    res.op # "none"
        => /\ disp.flat_index = res.dbefore.flat_index
           /\ disp.yfrac_beam = res.dbefore.yfrac_beam
           /\ disp.lam_beam = res.dbefore.lam_beam
           /\ disp.sensitivity_beam = res.dbefore.sensitivity_beam
           /\ disp.sh_beam = res.dbefore.sh_beam
           /\ disp.slx_parent = res.dbefore.slx_parent
           /\ disp.sly_parent = res.dbefore.sly_parent

\* An in-place compute_model with a template has replaced a nonzero model
\* by a different one.
C10_Witness ==
    /\ res.op = "compute_model"
    /\ res.status = "True"
    /\ ~disp.spectrum_1d.none
    /\ disp.modelf # res.dbefore.modelf
    /\ \E t \in DOMAIN res.dbefore.modelf : res.dbefore.modelf[t] # 0

-----------------------------------------------------------------------------
(* The per-exposure model cache: compute_model_orders calls on a GrismFLT   *)

\* Number of compute_model_orders calls followed.
MaxCalls == 3

\* Stand-alone state left untouched by the GrismFLT specification.
BeamIdle ==
    /\ disp = <<>>
    /\ full_array = Zeros(<<0, 0>>)
    /\ nops = 0
    /\ res = NoRes

\* GrismFLT.__init__: the model is zeros_like the exposure and the registry
\* is empty.
EmptyRegistry == [i \in AllIds |-> Absent]

Init ==
    /\ frame \in Frames
    /\ model = Zeros(frame.direct.sh)
    /\ object_dispersers = EmptyRegistry
    /\ calls = <<>>
    /\ BeamIdle
    /\ RaceIdle

\* The signature's defaults, with an explicit position and size 1.
DefaultArgs(id, pos, t) ==
    [id |-> id, pos_none |-> FALSE, y |-> pos[1], x |-> pos[2], size |-> 1,
     mag |-> 0 - 1, spectrum_1d |-> t, compute_size |-> FALSE, store |-> TRUE,
     in_place |-> TRUE, get_beams |-> NoBeams]

\* The calls considered on exposure f: upserts of objects 1 and 2 with a
\* flat or a template spectrum, and calls that differ from an upsert in one
\* argument (in_place, store, get_beams, mag, an absent id, no position,
\* compute_size, another position).
CallArgs(f) ==
    LET P1 == <<f.row + 1, 1>>
        P2 == <<f.row + 2, 1>>
    IN  {DefaultArgs(1, P1, t) : t \in {NoneSpec, T1}}
        \cup {DefaultArgs(2, P2, t) : t \in {NoneSpec, T1}}
        \cup {[DefaultArgs(1, P1, T2) EXCEPT !.in_place = FALSE],
              [DefaultArgs(1, P1, T1) EXCEPT !.store = FALSE],
              [DefaultArgs(1, P1, NoneSpec) EXCEPT
                    !.get_beams = [none |-> FALSE, names |-> <<"A">>]],
              [DefaultArgs(2, P2, NoneSpec) EXCEPT !.mag = 25],
              DefaultArgs(3, P1, NoneSpec),
              [DefaultArgs(1, P1, NoneSpec) EXCEPT !.pos_none = TRUE],
              [DefaultArgs(2, P2, NoneSpec) EXCEPT !.compute_size = TRUE],
              DefaultArgs(1, P2, NoneSpec)}

\* One compute_model_orders call, at most limit of them being followed.
\* calls keeps its arguments, the kind of registry entry the id had before
\* it, its return value and the additions it made to the output array.
OrdersCall(a, limit) ==
    /\ Len(calls) < limit
    /\ \E r \in {compute_model_orders(frame, model, object_dispersers, a)} :
           /\ model' = r.model
           /\ object_dispersers' = r.object_dispersers
           /\ calls' = Append(calls, [a |-> a, was |-> object_dispersers[a.id].kind,
                                      ret |-> r.ret, log |-> r.log])
    /\ UNCHANGED <<frame, beamVars, raceVars, cutVars>>

ComputeModelOrders(a) == OrdersCall(a, MaxCalls)

Next == \E a \in CallArgs(frame) : ComputeModelOrders(a)

Spec == Init /\ [][Next]_vars

-----------------------------------------------------------------------------
(* The model cache: claims C1, C2, C3 (checked under Spec)                  *)

\* The beams registered for the ids of S, in id order.
RECURSIVE BeamsOf(_, _)
BeamsOf(registry, S) ==
    IF S = {} THEN <<>>
    ELSE LET i == CHOOSE m \in S : \A o \in S : m <= o
         IN  registry[i].beams \o BeamsOf(registry, S \ {i})

\* arr after add_to_full_image(beam.model, arr) for the beams from i on.
RECURSIVE PlaceAll(_, _, _)
PlaceAll(beams, i, arr) ==
    IF i > Len(beams) THEN arr
    ELSE PlaceAll(beams, i + 1,
                  add_to_full_image(beams[i], Model2D(beams[i]), arr).full)

\* C1: from a zero model and an empty registry, after any sequence of
\* compute_model_orders calls, GrismFLT.model equals the sum, over every id
\* of the registry and every beam registered for it, of the beam's current
\* model placed at its footprint by add_to_full_image.
C1_ModelIsSumOfRegistered ==
    model = PlaceAll(BeamsOf(object_dispersers, AllIds), 1, Zeros(model.sh))

\* A registered beam's model has been replaced by an out-of-place call
\* while the detector model still holds the model added before.
C1_StaleDetector ==
    /\ Len(calls) >= 2
    /\ calls[1].a.in_place /\ calls[1].ret = "True" /\ calls[1].was = "absent"
    /\ ~calls[2].a.in_place /\ calls[2].ret = "beams_output"
    /\ calls[2].a.id = calls[1].a.id
    /\ object_dispersers[calls[1].a.id].kind = "beams"
    /\ ~C1_ModelIsSumOfRegistered

\* The elementwise sum of two arrays of one shape.
ArrAdd(x, y) == [sh |-> x.sh, v |-> [q \in DOMAIN x.v |-> x.v[q] + y.v[q]]]

\* A beam like b whose model is computed afresh, on a zero buffer, from
\* b's thumbnail, origin and order and b's last template.
Recomputed(b) ==
    compute_model(GrismDisperser(b.id, b.direct, b.seg, b.origin, b.beam),
                  b.id, NoneArr, b.spectrum_1d, TRUE).b

\* What the object id alone contributes to a zero detector: its registered
\* beams, recomputed, placed at their footprints.
Contribution(id) ==
    LET bs == object_dispersers[id].beams
    IN  PlaceAll([k \in 1..Len(bs) |-> Recomputed(bs[k])], 1, Zeros(model.sh))

RECURSIVE SumContributions(_)
SumContributions(S) ==
    IF S = {} THEN Zeros(model.sh)
    ELSE LET i == CHOOSE m \in S : TRUE
         IN  ArrAdd(Contribution(i), SumContributions(S \ {i}))

\* An upsert: an in-place, storing call with an explicit position and the
\* configured orders, that returned True.
IsUpsert(c) ==
    /\ c.a.in_place /\ c.a.store /\ c.a.get_beams.none
    /\ ~c.a.pos_none /\ ~c.a.compute_size
    /\ c.ret = "True"

UpsertsOnly == \A k \in 1..Len(calls) : IsUpsert(calls[k])

\* C2: (frame) an in-place compute_model_orders call for an id A leaves the
\* registry entry of every other registered id B, with B's beams' model
\* buffers and last templates, unchanged; (exactness) after upserts only,
\* such as upsert(A), upsert(B), upsert(A, new template), every beam of the
\* id last upserted carries the new template and the detector model is
\* exactly the sum of the objects' contributions, each recomputed afresh
\* from its last template: newA + B, with no residual of the old A.
C2_UpsertLeavesOthersExact ==
    /\ [](UpsertsOnly /\ Len(calls) > 0 =>
            LET c  == calls[Len(calls)]
                bs == object_dispersers[c.a.id].beams
            IN  /\ object_dispersers[c.a.id].kind = "beams"
                /\ \A k \in 1..Len(bs) : bs[k].spectrum_1d = c.a.spectrum_1d
                /\ model = SumContributions(AllIds))
    /\ [][Len(calls') > Len(calls) /\ calls'[Len(calls')].a.in_place =>
            \A B \in AllIds \ {calls'[Len(calls')].a.id} :
                object_dispersers[B].kind # "absent" =>
                    object_dispersers'[B] = object_dispersers[B]]_vars

\* upsert(A), upsert(B), upsert(A, new template) has happened, A's and B's
\* contributions being nonzero at a common pixel and the new A differing
\* from the old one there.
C2_Witness ==
    /\ Len(calls) = 3
    /\ UpsertsOnly
    /\ calls[1].a.id = calls[3].a.id
    /\ calls[2].a.id # calls[1].a.id
    /\ calls[3].a.spectrum_1d # calls[1].a.spectrum_1d
    /\ \E q \in DOMAIN model.v :
          /\ Contribution(calls[1].a.id).v[q] # 0
          /\ Contribution(calls[2].a.id).v[q] # 0
          /\ calls[3].log[1].op = "sub"
          /\ model.v[q] = Contribution(calls[1].a.id).v[q]
                            + Contribution(calls[2].a.id).v[q]

\* The models added to the detector by the latest in-place call for id
\* before call n that returned True.
PrevAdded(id, n) ==
    LET K == {k \in 1..(n - 1) :
                calls[k].a.id = id /\ calls[k].a.in_place /\ calls[k].ret = "True"}
    IN  IF K = {} THEN <<>>
        ELSE SelectSeq(calls[CHOOSE k \in K : \A o \in K : o <= k].log,
                       LAMBDA e : e.op = "add")

\* C3: in an in-place compute_model_orders call for an id already in the
\* registry, for each beam of the object the model previously added to the
\* detector is subtracted, then the recomputed model is added, every old
\* contribution being subtracted exactly once; on return the registry
\* entry holds exactly the beams whose models are now in the detector.
C3_SubtractOldThenAddNew ==
    \A n \in 1..Len(calls) :
        (n = Len(calls) /\ calls[n].a.in_place /\ calls[n].was # "absent"
            /\ calls[n].ret = "True") =>
        LET c    == calls[n]
            prev == PrevAdded(c.a.id, n)
            bs   == object_dispersers[c.a.id].beams
        IN  /\ Len(c.log) = 2 * Len(prev)
            /\ \A i \in 1..Len(prev) :
                  /\ c.log[2 * i - 1].op = "sub"
                  /\ c.log[2 * i - 1].beam = prev[i].beam
                  /\ c.log[2 * i - 1].data = prev[i].data
                  /\ c.log[2 * i].op = "add"
                  /\ c.log[2 * i].beam = prev[i].beam
            /\ object_dispersers[c.a.id].kind = "beams"
            /\ Len(bs) = Len(prev)
            /\ \A i \in 1..Len(bs) : Model2D(bs[i]) = c.log[2 * i].data

\* An in-place call has subtracted, for a registered beam, a model other
\* than the one last added to the detector for it: an out-of-place call in
\* between had replaced the beam's model.
C3_SubtractedNotAdded ==
    /\ Len(calls) = 3
    /\ calls[1].a.in_place /\ calls[1].a.store /\ calls[1].ret = "True"
    /\ ~calls[2].a.in_place /\ calls[2].a.id = calls[1].a.id
    /\ calls[3].a.in_place /\ calls[3].a.id = calls[1].a.id
    /\ calls[3].was = "beams"
    /\ \E i \in 1..Len(PrevAdded(calls[3].a.id, 3)) :
          /\ calls[3].log[2 * i - 1].op = "sub"
          /\ calls[3].log[2 * i - 1].data # PrevAdded(calls[3].a.id, 3)[i].data

-----------------------------------------------------------------------------
(* Concurrent callers of compute_model_orders on one GrismFLT               *)

\* Number of in-place calls each caller makes for its object.
MaxRounds == 2

\* The callers: caller w upserts object w.
Writers == {1, 2}

\* The arguments of caller w's next call on exposure f, after done calls:
\* the object at its position, with a flat spectrum and T1 in turn.
WriterArgs(f, w, done) ==
    DefaultArgs(w, <<f.row + w, 1>>, IF done % 2 = 0 THEN NoneSpec ELSE T1)

\* A caller outside compute_model_orders, having completed done calls.
Idle(done) ==
    [pc |-> "idle", done |-> done, i |-> 0, sub |-> FALSE,
     sly |-> <<0, 0>>, slx |-> <<0, 0>>, tmp |-> Zeros(<<0, 0>>)]

InitRace ==
    /\ frame \in Frames
    /\ model = Zeros(frame.direct.sh)
    /\ object_dispersers = EmptyRegistry
    /\ calls = <<>>
    /\ BeamIdle
    /\ CutIdle
    /\ serialized \in BOOLEAN
    /\ holder = 0
    /\ writers = [w \in Writers |-> Idle(0)]

\* Where caller w goes after the addition for beam i: the next beam of the
\* loop of lines 1656-1665, or out of the call.
AfterAdd(w) ==
    IF writers[w].i < Len(object_dispersers[w].beams)
    THEN [writers[w] EXCEPT !.pc = IF writers[w].sub THEN "sub_read" ELSE "add_read",
                            !.i = writers[w].i + 1]
    ELSE Idle(writers[w].done + 1)

\* The turn is given up when the call ends.
Release(w, nw) == IF nw.pc = "idle" THEN 0 ELSE holder

\* Caller w enters compute_model_orders (lines 1523-1652): when callers are
\* serialized it waits for its turn.  The beams are taken from the registry
\* or built and stored there.
Begin(w) ==
    /\ writers[w].pc = "idle"
    /\ writers[w].done < MaxRounds
    /\ serialized => holder = 0
    /\ \E pr \in {orders_prepare(frame, object_dispersers,
                                 WriterArgs(frame, w, writers[w].done))} :
          LET sub == subtract_previous(object_dispersers[w].kind # "absent", TRUE)
              nw  == IF pr.ret # "go" \/ Len(pr.beams) = 0
                     THEN Idle(writers[w].done + 1)
                     ELSE [writers[w] EXCEPT !.pc = IF sub THEN "sub_read" ELSE "add_read",
                                             !.i = 1, !.sub = sub]
          IN  /\ object_dispersers' = pr.registry
              /\ writers' = [writers EXCEPT ![w] = nw]
              /\ holder' = IF serialized /\ nw.pc # "idle" THEN w ELSE holder
    /\ UNCHANGED <<frame, model, calls, serialized, beamVars, cutVars>>

\* Line 1661, first half: the in-place add reads the window of the shared
\* array and computes the window minus the beam's current model.
SubRead(w) ==
    /\ writers[w].pc = "sub_read"
    /\ LET beam == object_dispersers[w].beams[writers[w].i]
       IN  \E t \in {add_target(beam, Neg(Model2D(beam)), model)} :
              writers' = [writers EXCEPT ![w] =
                  IF t.status = "raise" THEN Idle(writers[w].done + 1)
                  ELSE IF t.status = "False" THEN [writers[w] EXCEPT !.pc = "add_read"]
                  ELSE [writers[w] EXCEPT !.pc = "sub_write",
                            !.sly = t.sly, !.slx = t.slx,
                            !.tmp = SliceSum(model, t.sly, t.slx, t.data)]]
    /\ holder' = Release(w, writers'[w])
    /\ UNCHANGED <<frame, model, object_dispersers, calls, serialized, beamVars, cutVars>>

\* Line 1661, second half: the result is written to the window.
SubWrite(w) ==
    /\ writers[w].pc = "sub_write"
    /\ model' = SliceStore(model, writers[w].sly, writers[w].slx, writers[w].tmp)
    /\ writers' = [writers EXCEPT ![w] =
                      [writers[w] EXCEPT !.pc = "add_read", !.tmp = Zeros(<<0, 0>>)]]
    /\ UNCHANGED <<frame, object_dispersers, calls, serialized, holder, beamVars, cutVars>>

\* Lines 1664-1665, first half: the beam's model is recomputed in place,
\* then the in-place add reads the window and computes window plus model.
AddRead(w) ==
    /\ writers[w].pc = "add_read"
    /\ \E nb \in {compute_model(object_dispersers[w].beams[writers[w].i], w, NoneArr,
                                WriterArgs(frame, w, writers[w].done).spectrum_1d,
                                TRUE).b} :
       \E t \in {add_target(nb, Model2D(nb), model)} :
          /\ object_dispersers' =
                [object_dispersers EXCEPT ![w].beams[writers[w].i] = nb]
          /\ writers' = [writers EXCEPT ![w] =
                IF t.status = "raise" THEN Idle(writers[w].done + 1)
                ELSE IF t.status = "False" THEN AfterAdd(w)
                ELSE [writers[w] EXCEPT !.pc = "add_write",
                          !.sly = t.sly, !.slx = t.slx,
                          !.tmp = SliceSum(model, t.sly, t.slx, t.data)]]
    /\ holder' = Release(w, writers'[w])
    /\ UNCHANGED <<frame, model, calls, serialized, beamVars, cutVars>>

\* Line 1665, second half: the result is written to the window.
AddWrite(w) ==
    /\ writers[w].pc = "add_write"
    /\ model' = SliceStore(model, writers[w].sly, writers[w].slx, writers[w].tmp)
    /\ writers' = [writers EXCEPT ![w] = AfterAdd(w)]
    /\ holder' = Release(w, writers'[w])
    /\ UNCHANGED <<frame, object_dispersers, calls, serialized, beamVars, cutVars>>

NextRace ==
    \/ \E w \in Writers : Begin(w)
    \/ \E w \in Writers : SubRead(w)
    \/ \E w \in Writers : SubWrite(w)
    \/ \E w \in Writers : AddRead(w)
    \/ \E w \in Writers : AddWrite(w)

SpecRace == InitRace /\ [][NextRace]_vars

-----------------------------------------------------------------------------
(* Concurrent callers: claim C4 (checked under SpecRace)                    *)

\* No caller is inside compute_model_orders.
Quiescent == \A w \in Writers : writers[w].pc = "idle"

\* C4: when in-place compute_model_orders calls for different ids with
\* overlapping beam footprints are serialized (one caller at a time on the
\* detector), then whenever no call is in progress the detector model
\* equals the sum of the registered beams' models placed at their
\* footprints; interleaved at the read and the write of add_to_full_image
\* they can lose an update (C4_LostUpdate is reachable).
C4_SerializedNoLostUpdate ==
    (serialized /\ Quiescent) =>
        model = PlaceAll(BeamsOf(object_dispersers, Writers), 1, Zeros(model.sh))

\* Interleaved callers have both returned from their calls and the detector
\* model differs from the sum of the registered beams' models.
C4_LostUpdate ==
    /\ ~serialized
    /\ Quiescent
    /\ \A w \in Writers : writers[w].done > 0 /\ object_dispersers[w].kind = "beams"
    /\ model # PlaceAll(BeamsOf(object_dispersers, Writers), 1, Zeros(model.sh))

-----------------------------------------------------------------------------
(* The faint limit of the orders: claim C11 (checked under Spec)            *)

\* C11: after an in-place compute_model_orders call with magnitude m that
\* returned True, the registry entry of the id holds no beam of an order
\* whose MMAG_EXTRACT limit is below m, and the call added nothing to the
\* detector for such an order, also when the id had been registered
\* before with a brighter magnitude.
C11_FaintOrdersAbsent ==
    \A n \in 1..Len(calls) :
        (n = Len(calls) /\ calls[n].a.in_place /\ calls[n].ret = "True") =>
        LET c  == calls[n]
            bs == object_dispersers[c.a.id].beams
        IN  /\ \A k \in 1..Len(bs) : c.a.mag <= conf_mmag_extract(bs[k].beam)
            /\ \A k \in 1..Len(c.log) :
                  c.log[k].op = "add" => c.a.mag <= conf_mmag_extract(c.log[k].beam)

\* An object registered with every order is computed again in place with a
\* magnitude fainter than the limit of order B: the beam of order B is
\* still registered, and its model was added to the detector again.
C11_FaintOrderKept ==
    /\ Len(calls) = 2
    /\ calls[1].a.in_place /\ calls[1].a.store /\ calls[1].ret = "True"
    /\ calls[1].a.mag <= conf_mmag_extract("B")
    /\ calls[2].a.id = calls[1].a.id
    /\ calls[2].a.in_place /\ calls[2].ret = "True"
    /\ calls[2].a.mag > conf_mmag_extract("B")
    /\ \E k \in 1..Len(object_dispersers[calls[2].a.id].beams) :
          object_dispersers[calls[2].a.id].beams[k].beam = "B"
    /\ \E k \in 1..Len(calls[2].log) :
          /\ calls[2].log[k].op = "add"
          /\ calls[2].log[k].beam = "B"
          /\ calls[2].log[k].data # Zeros(calls[2].log[k].data.sh)

-----------------------------------------------------------------------------
(* Looking the object up: exposures with a catalog, with an object       *)
(* without flux, with orders lacking calibration, and a larger exposure  *)

\* Number of compute_model_orders calls followed on these exposures.
MaxFinds == 2

\* Side of the larger exposure.
BigSize == 8

\* The exposures considered.  WithCatalog: the catalog lists object 1 only,
\* and order C has no dispersion offsets.  NoFlux: the direct image is zero
\* on object 2, and order D has no throughput curve.  NoLimit: order E has
\* no faint limit.  Big: object 1 is the single pixel (BigSize-2, BigSize-2)
\* and object 2 the pixel (3, 3).
FindFrames ==
    LET sq == Frame(<<FltSize, FltSize>>, 0)
    IN  {[sq EXCEPT !.catalog = [none |-> FALSE, rows |-> [i \in {1} |-> <<2, 2>>]],
                    !.beams = <<"A", "C", "B">>],
         [sq EXCEPT !.direct = MkArr(sq.direct.sh, LAMBDA i, j :
                                  IF sq.seg.v[<<i, j>>] = 2 THEN 0
                                  ELSE sq.direct.v[<<i, j>>]),
                    !.beams = <<"A", "D", "B">>],
         [sq EXCEPT !.beams = <<"A", "E", "B">>],
         [sq EXCEPT !.direct = MkArr(<<BigSize, BigSize>>, LAMBDA i, j : 1 + ((i + 2 * j) % 3)),
                    !.seg = MkArr(<<BigSize, BigSize>>, LAMBDA i, j :
                                  IF i = BigSize - 2 /\ j = BigSize - 2 THEN 1
                                  ELSE IF i = 3 /\ j = 3 THEN 2
                                  ELSE 0)]}

InitFind ==
    /\ frame \in FindFrames
    /\ model = Zeros(frame.direct.sh)
    /\ object_dispersers = EmptyRegistry
    /\ calls = <<>>
    /\ BeamIdle
    /\ RaceIdle

\* The first pixel of object id in the segmentation map of f (row-major),
\* or (1, 1) when it has none.
ObjPos(f, id) ==
    LET px == {q \in DOMAIN f.seg.v : f.seg.v[q] = id}
    IN  IF px = {} THEN <<1, 1>>
        ELSE CHOOSE q \in px :
                \A o \in px : q[1] < o[1] \/ (q[1] = o[1] /\ q[2] <= o[2])

\* The calls considered on exposure f: for every id, a call at the object's
\* position, one without position and one with compute_size; object 1 with
\* store = False and a template; object 1 looked for in a corner where it is
\* not; and out-of-place calls for an id without pixels and for object 2.
FindArgs(f) ==
    {DefaultArgs(id, ObjPos(f, id), NoneSpec) : id \in AllIds}
    \cup {[DefaultArgs(id, ObjPos(f, id), NoneSpec) EXCEPT !.pos_none = TRUE] : id \in AllIds}
    \cup {[DefaultArgs(id, ObjPos(f, id), NoneSpec) EXCEPT !.compute_size = TRUE] : id \in AllIds}
    \cup {[DefaultArgs(1, ObjPos(f, 1), T1) EXCEPT !.store = FALSE],
          DefaultArgs(1, <<f.direct.sh[1] - 2, 0>>, NoneSpec),
          [DefaultArgs(3, ObjPos(f, 3), NoneSpec) EXCEPT !.in_place = FALSE],
          [DefaultArgs(2, ObjPos(f, 2), NoneSpec) EXCEPT !.pos_none = TRUE,
                                                         !.in_place = FALSE]}

FindAndCompute(a) == OrdersCall(a, MaxFinds)

NextFind == \E a \in FindArgs(frame) : FindAndCompute(a)

SpecFind == InitFind /\ [][NextFind]_vars

-----------------------------------------------------------------------------
(* Looking the object up: claims C12, C13, C14 (checked under SpecFind)     *)

\* The pixels of object id of exposure f inside the thumbnail that
\* compute_model_orders cuts for the box [yc, xc, size].
PixelsInBox(f, id, box) ==
    {q \in DOMAIN f.seg.v :
        /\ f.seg.v[q] = id
        /\ q[1] \in NpSlice(box.yc - box.size, box.yc + box.size, f.seg.sh[1])[1]
                     .. (NpSlice(box.yc - box.size, box.yc + box.size, f.seg.sh[1])[2] - 1)
        /\ q[2] \in NpSlice(box.xc - box.size, box.xc + box.size, f.seg.sh[2])[1]
                     .. (NpSlice(box.xc - box.size, box.xc + box.size, f.seg.sh[2])[2] - 1)}

\* The id asked for by a is not found on exposure f: it is absent from the
\* catalog, or its measured segmentation area is zero, or its centroid is
\* not finite (no flux to weight it), or it is absent from the thumbnail
\* that is cut.
NotFound(f, a) ==
    LET out == compute_segmentation_limits(f.seg, a.id, f.direct)
        box == thumbnail_box(f, a)
    IN  \/ ~f.catalog.none /\ a.id \notin DOMAIN f.catalog.rows
        \/ (a.compute_size \/ a.pos_none) /\ (out.area = 0 \/ out.den = 0)
        \/ box.ret = "cut" /\ PixelsInBox(f, a.id, box) = {}

\* C12: when the id asked for is not found (absent from the catalog, zero
\* measured area, non-finite centroid, or absent from the cut thumbnail;
\* the id's beams are not stored in the registry, so that it is looked up),
\* compute_model_orders returns False, with in_place True or False, and
\* leaves the detector model and the registry as they were.
C12_NotFoundReturnsFalse ==
    [][(Len(calls') > Len(calls)
          /\ object_dispersers[calls'[Len(calls')].a.id].kind # "beams"
          /\ NotFound(frame, calls'[Len(calls')].a))
       => /\ calls'[Len(calls')].ret = "False"
          /\ model' = model
          /\ object_dispersers' = object_dispersers]_vars

\* An object registered with its template only, whose model is in the
\* detector, has been looked for where it is not: the call returned False.
C12_Witness ==
    /\ Len(calls) = 2
    /\ calls[1].ret = "True" /\ ~calls[1].a.store
    /\ calls[2].a.id = calls[1].a.id
    /\ calls[2].was = "spec"
    /\ NotFound(frame, calls[2].a)
    /\ calls[2].ret = "False"
    /\ model # Zeros(model.sh)
    /\ object_dispersers[calls[2].a.id].kind = "spec"

\* C13: with compute_size = True, whenever compute_model_orders goes on to
\* cut a thumbnail, the half-size chosen keeps the thumbnail inside the
\* direct image on all four sides, and the thumbnail and its segmentation
\* cutout have shape (2*size, 2*size).
C13_ThumbnailInsideImage ==
    \A n \in 1..Len(calls) :
        LET a   == calls[n].a
            box == thumbnail_box(frame, a)
            c   == cut_thumbnails(frame, box)
        IN  (a.compute_size /\ calls[n].was # "beams" /\ box.ret = "cut") =>
                /\ box.yc - box.size >= 0
                /\ box.yc + box.size <= frame.direct.sh[1]
                /\ box.xc - box.size >= 0
                /\ box.xc + box.size <= frame.direct.sh[2]
                /\ c.thumb.sh = <<2 * box.size, 2 * box.size>>
                /\ c.seg_thumb.sh = <<2 * box.size, 2 * box.size>>

\* A compute_size call has cut a thumbnail that runs past the last row and
\* the last column of the direct image, and built the object's beams on the
\* clipped thumbnail.
C13_ThumbnailClipped ==
    /\ Len(calls) = 1
    /\ calls[1].a.compute_size
    /\ calls[1].ret = "True"
    /\ object_dispersers[calls[1].a.id].kind = "beams"
    /\ LET box == thumbnail_box(frame, calls[1].a)
       IN  /\ box.ret = "cut"
           /\ box.size >= 4
           /\ box.yc + box.size > frame.direct.sh[1]
           /\ box.xc + box.size > frame.direct.sh[2]
           /\ object_dispersers[calls[1].a.id].beams[1].sh # <<2 * box.size, 2 * box.size>>

\* The orders of a list that have every calibration entry, in order.
Calibrated(names) ==
    SelectSeq(names, LAMBDA bm : /\ conf_defines("dxlam", bm)
                                 /\ conf_defines("sens", bm)
                                 /\ conf_defines("mmag", bm))

\* The orders of a sequence of beams or of log entries.
OrdersOf(es) == [k \in 1..Len(es) |-> es[k].beam]

\* C14: when one of the configured orders has no calibration (no
\* dispersion offsets, no sensitivity curve, or no faint-limit entry), a
\* compute_model_orders call that finds the object does not raise: the
\* beams of all the other orders are computed and added to the output, and
\* a storing in-place call registers them.
C14_UncalibratedOrderSkipped ==
    \A n \in 1..Len(calls) :
        LET c   == calls[n]
            box == thumbnail_box(frame, c.a)
        IN  (/\ n = Len(calls)
             /\ c.was # "beams"
             /\ c.a.get_beams.none
             /\ Calibrated(frame.beams) # frame.beams
             /\ box.ret = "cut" /\ PixelsInBox(frame, c.a.id, box) # {}) =>
                /\ c.ret # "raise"
                /\ OrdersOf(SelectSeq(c.log, LAMBDA e : e.op = "add"))
                      = Calibrated(frame.beams)
                /\ (c.a.in_place /\ c.a.store) =>
                      /\ object_dispersers[c.a.id].kind = "beams"
                      /\ OrdersOf(object_dispersers[c.a.id].beams)
                            = Calibrated(frame.beams)

\* With an order E that has no faint-limit entry among the configured
\* orders, a call that found the object has raised: no beam of the
\* calibrated orders A and B is registered or added.
C14_MissingLimitRaises ==
    /\ Len(calls) = 1
    /\ calls[1].ret = "raise"
    /\ \E k \in 1..Len(frame.beams) : ~conf_defines("mmag", frame.beams[k])
    /\ Calibrated(frame.beams) = <<"A", "B">>
    /\ PixelsInBox(frame, calls[1].a.id, thumbnail_box(frame, calls[1].a)) # {}
    /\ object_dispersers[calls[1].a.id].kind = "absent"
    /\ model = Zeros(model.sh)

-----------------------------------------------------------------------------
(* BeamCutout: a beam with the matching slices of the grism exposure        *)

\* Unit of the inverse variance: ivar = 1/ERR**2 is carried as IvarScale/ERR**2,
\* an integer for the errors 1 and 2 of the exposures considered.
IvarScale == 4

\* ndarray.flatten() of a 2D array (row-major).
Flatten(a) == [t \in 0..(a.sh[1] * a.sh[2] - 1) |-> a.v[<<t \div a.sh[2], t % a.sh[2]>>]]

\* a[sly, slx] for slices inside the array.
SliceOf(a, sly, slx) ==
    MkArr(<<sly[2] - sly[1], slx[2] - slx[1]>>,
          LAMBDA i, j : a.v[<<sly[1] + i, slx[1] + j>>])

\* ImageData.get_slice raises ValueError for a slice that leaves the image.
get_slice_raises(sh, sly, slx) ==
    \/ sly[1] < 0 \/ sly[1] + (sly[2] - sly[1]) > sh[1]
    \/ slx[1] < 0 \/ slx[1] + (slx[2] - slx[1]) > sh[2]

\* BeamCutout.init_from_input(flt, beam): a new GrismDisperser like beam
\* with its model computed from beam's last template, the grism slices,
\* and the contamination.  g: flt.grism.data.  Result: [raised, beam,
\* grism, contam].
init_from_input(f, g, fmodel, registry, beam) ==
    Bind(compute_model(GrismDisperser(beam.id, beam.direct, beam.seg, beam.origin,
                                      beam.beam),
                       NoId, NoneArr, beam.spectrum_1d, TRUE).b,
      LAMBDA b :
        LET slx_thumb == <<b.origin[2], b.origin[2] + b.sh[2]>>
            sly_thumb == <<b.origin[1], b.origin[1] + b.sh[1]>>
            sl        == SliceOf(fmodel, b.sly_parent, b.slx_parent)
            own       == Model2D(b)
        IN  IF \/ get_slice_raises(f.direct.sh, sly_thumb, slx_thumb)
               \/ get_slice_raises(g.SCI.sh, b.sly_parent, b.slx_parent)
            THEN [raised |-> TRUE]
            ELSE [raised |-> FALSE,
                  beam   |-> b,
                  grism  |-> [SCI |-> SliceOf(g.SCI, b.sly_parent, b.slx_parent),
                              ERR |-> SliceOf(g.ERR, b.sly_parent, b.slx_parent),
                              DQ  |-> SliceOf(g.DQ, b.sly_parent, b.slx_parent)],
                  contam |-> IF registry[b.id].kind # "absent"
                             THEN MkArr(sl.sh, LAMBDA i, j :
                                        sl.v[<<i, j>>] - own.v[<<i, j>>])
                             ELSE sl])

\* The exclusion mask of lines 2068-2070 at one pixel.  A variant that
\* overlooks pixels without science value comes first.
exclusion_mask_keeping_empty(dq, err, sci) == dq > 0 \/ err = 0

exclusion_mask(dq, err, sci) == dq > 0 \/ err = 0 \/ sci = 0

\* The largest element of a flat array.
ArrMax(x) == CHOOSE m \in {x[t] : t \in DOMAIN x} : \A t \in DOMAIN x : x[t] <= m

\* nd.maximum_filter(mask, size) of a boolean 2D array: whether any entry
\* within size \div 2 rows and columns is set.
maximum_filter(a, size) ==
    [sh |-> a.sh,
     v  |-> [q \in DOMAIN a.v |->
               \E o \in DOMAIN a.v :
                  /\ Abs(o[1] - q[1]) <= size \div 2
                  /\ Abs(o[2] - q[2]) <= size \div 2
                  /\ a.v[o]]]

\* BeamCutout.__init__(flt, beam) with contam_sn_mask = [10, 3]: lines
\* 2065-2101.  abs(x)*sqrt(ivar) > n is evaluated as abs(x) > n*abs(ERR)
\* where ivar is not zero.  src records where the caller had the beam from;
\* poly_order is None (-1) and the attributes that init_poly_coeffs creates
\* are empty.
BeamCutout(f, g, fmodel, registry, beam) ==
    Bind(init_from_input(f, g, fmodel, registry, beam),
      LAMBDA c :
        IF c.raised THEN [none |-> FALSE, raised |-> TRUE, src |-> ""]
        ELSE
        Bind(compute_model(c.beam, NoId, NoneArr, NoneSpec, FALSE).out,
          LAMBDA flat_flam :
            LET sh    == c.beam.sh_beam
                mask  == [sh |-> sh,
                          v  |-> [q \in Idx(sh) |->
                                    exclusion_mask(c.grism.DQ.v[q], c.grism.ERR.v[q],
                                                   c.grism.SCI.v[q])]]
                ivar  == [sh |-> sh,
                          v  |-> [q \in Idx(sh) |->
                                    IF mask.v[q] THEN 0
                                    ELSE IvarScale \div (c.grism.ERR.v[q] * c.grism.ERR.v[q])]]
                model2d == Model2D(c.beam)
                peak  == ArrMax(flat_flam)
                maskf == Flatten(mask)
                ivarf == Flatten(ivar)
                errf  == Flatten(c.grism.ERR)
                scif  == Flatten(MkArr(sh, LAMBDA i, j :
                                   c.grism.SCI.v[<<i, j>>] - c.contam.v[<<i, j>>]))
                fit0  == [t \in DOMAIN flat_flam |->
                            /\ ~maskf[t] /\ ivarf[t] # 0
                            /\ 100 * flat_flam[t] > peak]
                bad_resid == [t \in DOMAIN flat_flam |->
                                /\ 20 * flat_flam[t] < peak
                                /\ ivarf[t] # 0
                                /\ Abs(scif[t] - flat_flam[t]) > 5 * Abs(errf[t])]
                contam_mask == [sh |-> sh,
                                v  |-> [q \in Idx(sh) |->
                                          /\ ivar.v[q] # 0
                                          /\ c.contam.v[q] > 10 * Abs(c.grism.ERR.v[q])
                                          /\ model2d.v[q] < 3 * Abs(c.grism.ERR.v[q])]]
            IN  [none        |-> FALSE,
                 raised      |-> FALSE,
                 src         |-> "",
                 id          |-> beam.id,
                 beam        |-> c.beam,
                 grism       |-> c.grism,
                 contam      |-> c.contam,
                 mask        |-> mask,
                 ivar        |-> ivar,
                 model       |-> model2d,
                 modelf      |-> Flatten(model2d),
                 flat_flam   |-> flat_flam,
                 fit_mask    |-> [t \in DOMAIN flat_flam |-> fit0[t] /\ ~bad_resid[t]],
                 scif        |-> scif,
                 ivarf       |-> ivarf,
                 contam_mask |-> [t \in DOMAIN flat_flam |->
                                    ~Flatten(maximum_filter(contam_mask, 5))[t]],
                 poly_order  |-> 0 - 1,
                 A_poly      |-> <<>>,
                 n_bg        |-> 0,
                 n_poly      |-> 0,
                 n_simp      |-> 0,
                 DoF         |-> 0]))

-----------------------------------------------------------------------------
(* Cutouts of a GrismFLT: BeamCutout(flt, beam)                             *)

\* Number of compute_model_orders calls followed before a cutout is made,
\* and the detector shape: both orders of both objects fall inside it.
MaxCutCalls == 2
CutRows == 4
CutCols == 7

\* An exposure whose objects 1 and 2 are the pixels (1, 3) and (2, 3).
CutFrame ==
    [Frame(<<CutRows, CutCols>>, 0) EXCEPT
        !.seg = MkArr(<<CutRows, CutCols>>, LAMBDA i, j :
                    IF <<i, j>> = <<1, 3>> THEN 1
                    ELSE IF <<i, j>> = <<2, 3>> THEN 2 ELSE 0)]

\* flt.grism.data of shape sh: science values 0..2, errors 0..2 and data
\* quality flags 0 or 8, laid out differently for each k.
GrismData(sh, k) ==
    [SCI |-> MkArr(sh, LAMBDA i, j : (i + 2 * j + k) % 3),
     ERR |-> MkArr(sh, LAMBDA i, j : (2 * i + j + k) % 3),
     DQ  |-> MkArr(sh, LAMBDA i, j : IF (i + j + k) % 4 = 0 THEN 8 ELSE 0)]

InitCutout ==
    /\ frame = CutFrame
    /\ model = Zeros(frame.direct.sh)
    /\ object_dispersers = EmptyRegistry
    /\ calls = <<>>
    /\ BeamIdle
    /\ serialized = FALSE /\ holder = 0 /\ writers = <<>>
    /\ grism \in {GrismData(frame.direct.sh, k) : k \in {0, 1}}
    /\ cutout = NoCutout
    /\ search = NoSearch

\* The calls considered before a cutout: upserts of objects 1 and 2, an
\* upsert of object 1 with a template, object 1 at magnitude 25 (beyond
\* the faint limit of order B), and object 1 with a template and store =
\* False.
CutArgs(f) ==
    {DefaultArgs(1, ObjPos(f, 1), NoneSpec),
     DefaultArgs(1, ObjPos(f, 1), T1),
     DefaultArgs(2, ObjPos(f, 2), NoneSpec),
     [DefaultArgs(1, ObjPos(f, 1), NoneSpec) EXCEPT !.mag = 25],
     [DefaultArgs(1, ObjPos(f, 1), T1) EXCEPT !.store = FALSE]}

CutCompute(a) ==
    /\ cutout = NoCutout
    /\ OrdersCall(a, MaxCutCalls)

\* The beams that compute_model_orders(id, x, y, size, get_beams=[order])
\* returns at line 1636 for an id without stored beams (none when the
\* call returns before).
get_beams_return(f, registry, id, order) ==
    LET a == [DefaultArgs(id, ObjPos(f, id), NoneSpec) EXCEPT
                 !.get_beams = [none |-> FALSE, names |-> <<order>>]]
    IN  IF orders_prepare(f, registry, a).ret # "beams" THEN <<>>
        ELSE Bind(cut_thumbnails(f, thumbnail_box(f, a)),
               LAMBDA c : build_beams(<<order>>, 1, a, c.thumb, c.seg_thumb,
                                      c.origin, registry[id]))

\* The beam objects of order `order` of object id that a caller can hold:
\* the one stored in the registry ("registered"), the one get_beams
\* returns now ("returned"), and the one get_beams returned on the fresh
\* exposure, before any call ("earlier").
BeamFrom(src, id, order) ==
    CASE src = "registered" ->
            SelectSeq(object_dispersers[id].beams, LAMBDA b : b.beam = order)
      [] src = "returned" -> get_beams_return(frame, object_dispersers, id, order)
      [] src = "earlier"  -> get_beams_return(frame, EmptyRegistry, id, order)

BeamSources == {"registered", "returned", "earlier"}

\* cutout = BeamCutout(flt, beam).
MakeCutout(src, id, order) ==
    /\ cutout = NoCutout
    /\ \E bs \in {BeamFrom(src, id, order)} :
          /\ Len(bs) > 0
          /\ \E c \in {BeamCutout(frame, grism, model, object_dispersers, bs[1])} :
                cutout' = [c EXCEPT !.src = src]
    /\ UNCHANGED <<fltVars, beamVars, raceVars, grism, search>>

NextCutout ==
    \/ \E a \in CutArgs(frame) : CutCompute(a)
    \/ \E src \in BeamSources, id \in {1, 2}, order \in {"A", "B"} :
          MakeCutout(src, id, order)

SpecCutout == InitCutout /\ [][NextCutout]_vars

-----------------------------------------------------------------------------
(* Cutouts: claims C18, C19 (checked under SpecCutout)                      *)

\* What the detector model holds of order `order` of object id: the model
\* added for it by the latest in-place call for the id, or zeros.
InDetector(id, order, sh) ==
    LET es == SelectSeq(PrevAdded(id, Len(calls) + 1), LAMBDA e : e.beam = order)
    IN  IF Len(es) = 0 THEN Zeros(sh) ELSE es[1].data

\* C18: after BeamCutout(flt, beam), the cutout's contamination array is
\* the detector model over the beam's footprint minus what the detector
\* holds of this beam, and the plain slice when the id is not registered;
\* whether the id is registered with stored beams, with a template only,
\* or without this spectral order.
C18_ContamExcludesOwnModel ==
    (~cutout.none /\ ~cutout.raised) =>
        LET b   == cutout.beam
            sl  == SliceOf(model, b.sly_parent, b.slx_parent)
            own == InDetector(cutout.id, b.beam, b.sh_beam)
        IN  /\ cutout.contam.sh = sl.sh
            /\ \A q \in DOMAIN sl.v : cutout.contam.v[q] = sl.v[q] - own.v[q]
            /\ object_dispersers[cutout.id].kind = "absent" => cutout.contam = sl

\* Object 1 was registered at magnitude 25, without order B; the cutout of
\* its order B beam, held from before, has the beam's model subtracted
\* from a detector slice that never held it.
C18_OwnModelNotInDetector ==
    /\ ~cutout.none /\ ~cutout.raised
    /\ cutout.id = 1 /\ cutout.beam.beam = "B" /\ cutout.src = "earlier"
    /\ Len(calls) = 1 /\ calls[1].a.mag = 25 /\ calls[1].ret = "True"
    /\ object_dispersers[1].kind = "beams"
    /\ \A k \in 1..Len(object_dispersers[1].beams) :
          object_dispersers[1].beams[k].beam # "B"
    /\ \E q \in DOMAIN cutout.contam.v :
          /\ SliceOf(model, cutout.beam.sly_parent, cutout.beam.slx_parent).v[q] = 0
          /\ cutout.contam.v[q] < 0

\* C19: after construction, every pixel of fit_mask has DQ = 0, a nonzero
\* error, a nonzero science value and a flat model above 1% of the flat
\* model's peak; ivar is exactly 0 on every pixel of the exclusion mask
\* (DQ > 0, zero error or zero science value).
C19_FitMaskAndIvar ==
    (~cutout.none /\ ~cutout.raised) =>
        LET W  == cutout.beam.sh_beam[2]
            at(a, t) == a.v[<<t \div W, t % W>>]
        IN  /\ \A t \in DOMAIN cutout.fit_mask :
                  cutout.fit_mask[t] =>
                     /\ at(cutout.grism.DQ, t) = 0
                     /\ at(cutout.grism.ERR, t) # 0
                     /\ at(cutout.grism.SCI, t) # 0
                     /\ 100 * cutout.flat_flam[t] > ArrMax(cutout.flat_flam)
            /\ \A q \in DOMAIN cutout.ivar.v :
                  (\/ cutout.grism.DQ.v[q] > 0
                   \/ cutout.grism.ERR.v[q] = 0
                   \/ cutout.grism.SCI.v[q] = 0) => cutout.ivar.v[q] = 0

\* A cutout with a pixel in fit_mask and a pixel excluded for each of the
\* three reasons alone.
C19_Witness ==
    /\ ~cutout.none /\ ~cutout.raised
    /\ \E t \in DOMAIN cutout.fit_mask : cutout.fit_mask[t]
    /\ \E q \in DOMAIN cutout.ivar.v :
          /\ cutout.grism.DQ.v[q] > 0 /\ cutout.grism.ERR.v[q] # 0
          /\ cutout.grism.SCI.v[q] # 0 /\ cutout.ivar.v[q] = 0
    /\ \E q \in DOMAIN cutout.ivar.v :
          /\ cutout.grism.DQ.v[q] = 0 /\ cutout.grism.ERR.v[q] = 0
          /\ cutout.grism.SCI.v[q] # 0 /\ cutout.ivar.v[q] = 0
    /\ \E q \in DOMAIN cutout.ivar.v :
          /\ cutout.grism.DQ.v[q] = 0 /\ cutout.grism.ERR.v[q] # 0
          /\ cutout.grism.SCI.v[q] = 0 /\ cutout.ivar.v[q] = 0

-----------------------------------------------------------------------------
(* Template fits of a cutout: init_poly_coeffs, fit_at_z                    *)

\* a ** n for n >= 0, with 0 ** 0 = 1 as in numpy.
RECURSIVE Pow(_, _)
Pow(a, n) == IF n = 0 THEN 1 ELSE a * Pow(a, n - 1)

\* One polynomial column at one pixel: xpf**order * flat_flam.  The
\* normalized coordinate xpf = (xp - NX/2.)/(NX/2.) is the fraction
\* xnum / NX with xnum = 2*xp - NX, so the value is the returned integer
\* over NX**order.  A variant that leaves the flat model out comes first.
poly_column_plain(xnum, order, flat) == Pow(xnum, order)

poly_column(xnum, order, flat) == Pow(xnum, order) * flat

\* BeamCutout.init_poly_coeffs(poly_order) with fit_background = True, as
\* fit_at_z calls it.  c: the cutout; result: the cutout afterwards.  A
\* vector of A_poly is [num, den]: the flat array num / den.
init_poly_coeffs(c, poly_order) ==
    IF poly_order = c.poly_order THEN c
    ELSE LET NX == c.beam.sh_beam[2]
             T  == DOMAIN c.flat_flam
         IN  [c EXCEPT
                !.poly_order = poly_order,
                !.n_bg   = 1,
                !.A_poly = <<[num |-> [t \in T |-> c.flat_flam[t] * 0 + 1], den |-> 1]>>
                           \o [o \in 1..(poly_order + 1) |->
                                 [num |-> [t \in T |->
                                             poly_column(2 * (t % NX) - NX, o - 1,
                                                         c.flat_flam[t])],
                                  den |-> Pow(NX, o - 1)]],
                !.n_poly = poly_order + 1,
                !.n_simp = poly_order + 2,
                !.DoF    = Cardinality({t \in T : c.fit_mask[t]})]

\* utils.SpectrumTemplate.zscale(z, 1.): the template moved to redshift z,
\* its wavelengths multiplied by 1 + z.
zscale(temp, z) ==
    [name |-> temp.name,
     wave |-> [k \in DOMAIN temp.wave |-> temp.wave[k] * (1 + z)],
     flux |-> temp.flux]

\* The template libraries of load_templates(line_complexes): continuum
\* templates followed by line templates, in the order of the OrderedDict.
\* With line_complexes = False the lines come singly, and are more.
TCont  == [name |-> "cont", wave |-> <<1, 2, 3, 4, 5, 6, 7, 8>>,
           flux |-> <<1, 2, 3, 1, 2, 2, 1, 1>>]
TLineC == [name |-> "line Ha+SII", wave |-> <<5, 6>>, flux |-> <<0, 1>>]
TLineA == [name |-> "line Ha", wave |-> <<5, 6>>, flux |-> <<0, 2>>]
TLineB == [name |-> "line SII", wave |-> <<13, 14>>, flux |-> <<1, 1>>]

load_templates(line_complexes) ==
    IF line_complexes THEN <<TCont, TLineC>> ELSE <<TCont, TLineA, TLineB>>

\* The test of lines 2467-2468 on a redshifted template.
outside_coverage(temp, lam_beam) ==
    \/ temp.wave[1] > lam_beam[Len(lam_beam)]
    \/ temp.wave[Len(temp.wave)] < lam_beam[1]

\* The coefficients tried by the solver.
CoefSet == {0, 1}

\* The smallest element of a nonempty set of integers.
SetMin(S) == CHOOSE m \in S : \A o \in S : m <= o

\* numpy.linalg.lstsq(A[rows, :], y[rows]): coefficients with the least
\* summed squared residual, and among these the least norm, sought among
\* the vectors over CoefSet.  cols: the columns of A.
lstsq(cols, y, rows) ==
    LET n     == Len(cols)
        Cands == [1..n -> CoefSet]
        Resid(c) == SumOver([t \in rows |->
                        LET r == y[t] - SumOver([j \in 1..n |-> c[j] * cols[j][t]], 1..n)
                        IN  r * r], rows)
        Norm(c)  == SumOver([j \in 1..n |-> c[j] * c[j]], 1..n)
    IN  IF n = 0 THEN <<>>
        ELSE Bind(SetMin({Resid(c) : c \in Cands}),
               LAMBDA m :
                 Bind({c \in Cands : Resid(c) = m},
                   LAMBDA best :
                     Bind(SetMin({Norm(c) : c \in best}),
                       LAMBDA nm : CHOOSE c \in best : Norm(c) = nm)))

\* BeamCutout.fit_at_z(z, templates, fitter='lstsq', poly_order).  c: the
\* cutout.  Result: [raised, cutout, z, templates, A, ok_temp, out_coeffs,
\* chi2]: raised for the ValueError of the max() of line 2483 over an empty
\* fit mask; cutout is the cutout afterwards.  With D = NX**poly_order,
\* the columns of A are carried in units of 1/D and chi2 in units of
\* 1/(D*D*IvarScale).
fit_at_z(c, z, templates, poly_order) ==
    Bind(init_poly_coeffs(c, poly_order),
      LAMBDA c1 :
        LET T     == DOMAIN c1.flat_flam
            rows  == {t \in T : c1.fit_mask[t]}
            NT    == Len(templates)
            D     == Pow(c1.beam.sh_beam[2], poly_order)
            temp  == [k \in 1..NT |-> zscale(templates[k], z)]
            skip  == [k \in 1..NT |-> outside_coverage(temp[k], c1.beam.lam_beam)]
        IN  Bind([k \in 1..NT |->
                    IF skip[k] THEN c1.flat_flam
                    ELSE compute_model(c1.beam, NoId, NoneArr,
                                       MkSpec(temp[k].wave, temp[k].flux), FALSE).out],
              LAMBDA temp_model :
                LET faint == [k \in 1..NT |->
                                /\ ~skip[k]
                                /\ ArrMax(temp_model[k]) # 0
                                /\ rows # {}
                                /\ 5 * ArrMax([t \in rows |-> temp_model[k][t]])
                                      < ArrMax(temp_model[k])]
                    ok_temp == [j \in 1..(Len(c1.A_poly) + NT) |->
                                  \/ j <= Len(c1.A_poly)
                                  \/ /\ ~skip[j - Len(c1.A_poly)]
                                     /\ ~faint[j - Len(c1.A_poly)]]
                    A == [j \in 1..(Len(c1.A_poly) + NT) |->
                            IF j <= Len(c1.A_poly)
                            THEN [t \in T |-> c1.A_poly[j].num[t] * (D \div c1.A_poly[j].den)]
                            ELSE [t \in T |-> temp_model[j - Len(c1.A_poly)][t] * D]]
                    sel == SelectSeq([j \in 1..Len(A) |-> j], LAMBDA j : ok_temp[j])
                IN  IF rows = {} /\ \E k \in 1..NT : ~skip[k]
                    THEN [raised |-> TRUE, cutout |-> c1, z |-> z,
                          templates |-> templates, A |-> A, ok_temp |-> ok_temp,
                          out_coeffs |-> <<>>, chi2 |-> 0]
                    ELSE Bind(lstsq([r \in 1..Len(sel) |-> A[sel[r]]],
                                    [t \in T |-> c1.scif[t] * D], rows),
                           LAMBDA coeffs :
                             LET out_coeffs == [j \in 1..Len(A) |->
                                    IF ok_temp[j]
                                    THEN coeffs[CHOOSE r \in 1..Len(sel) : sel[r] = j]
                                    ELSE 0]
                                 fitted(t) == SumOver([j \in 1..Len(A) |->
                                                  out_coeffs[j] * A[j][t]], 1..Len(A))
                             IN  [raised |-> FALSE, cutout |-> c1, z |-> z,
                                  templates |-> templates, A |-> A,
                                  ok_temp |-> ok_temp,
                                  out_coeffs |-> out_coeffs,
                                  chi2 |-> SumOver([t \in rows |->
                                              (c1.scif[t] * D - fitted(t))
                                                * (c1.scif[t] * D - fitted(t))
                                                * c1.ivarf[t]], rows)])))

-----------------------------------------------------------------------------
(* BeamCutout.fit_redshift, one loop pass at a time                         *)

\* Length of the coarse redshift grid and the largest polynomial order.
NZ == 3
MaxPoly == 1

\* utils.log_zgrid(zr, dz[0]) for the zr and dz given: an increasing grid.
log_zgrid == [i \in 1..NZ |-> 2 * i - 1]

\* np.argmax (of chi2.max()): the first index of the largest element.
np_argmax(x) ==
    CHOOSE i \in 1..Len(x) :
        /\ \A o \in 1..Len(x) : x[o] <= x[i]
        /\ \A o \in 1..(i - 1) : x[o] # x[i]

\* np.argmin: the first index of the smallest element.  A variant that
\* takes the first element comes first.
np_argmin_first(x) == 1

np_argmin(x) ==
    CHOOSE i \in 1..Len(x) :
        /\ \A o \in 1..Len(x) : x[i] <= x[o]
        /\ \A o \in 1..(i - 1) : x[o] # x[i]

\* len(peakutils.indexes(y, thres, min_dist = 20)) for a grid shorter than
\* min_dist: one peak when y has an interior strict local maximum.
num_peaks(y) ==
    IF \E i \in 2..(Len(y) - 1) : y[i] > y[i - 1] /\ y[i] > y[i + 1] THEN 1 ELSE 0

\* The threshold chosen at lines 2571-2582, as the fraction
\* <<numerator, denominator>>.  chi2: the coarse chi-squares in units of
\* 1/S; DoF: the number of fitted pixels.
zoom_threshold(chi2, S, DoF) ==
    LET lo  == chi2[np_argmin(chi2)]
        hi  == chi2[np_argmax(chi2)]
        y   == [i \in 1..Len(chi2) |->
                  IF 1000 * (lo - chi2[i]) > (0 - 4) * S * DoF
                  THEN 1000 * (lo - chi2[i]) + 10 * S * DoF ELSE 0]
    IN  IF 100 * (hi - lo) > S * DoF /\ num_peaks(y) < 5
        THEN <<1, 100>> ELSE <<1, 1000>>

\* utils.zoom_zgrid(zgrid, chi2/DoF, threshold, factor): after every grid
\* point but the last whose chi2/DoF is within threshold of the least, the
\* points strictly between it and the next grid point (here the middle).
\* A variant whose refined points repeat the grid point comes first.
between_with_end(a, b) == <<a, (a + b) \div 2>>

between(a, b) == <<(a + b) \div 2>>

RECURSIVE zoom_zgrid(_, _, _, _, _, _)
zoom_zgrid(zgrid, chi2, S, DoF, threshold, i) ==
    IF i >= Len(zgrid) THEN <<>>
    ELSE (IF (chi2[i] - chi2[np_argmin(chi2)]) * threshold[2] < threshold[1] * S * DoF
          THEN between(zgrid[i], zgrid[i + 1]) ELSE <<>>)
         \o zoom_zgrid(zgrid, chi2, S, DoF, threshold, i + 1)

\* The units of chi2 for a polynomial order (see fit_at_z).
Chi2Unit(c, poly_order) ==
    Pow(c.beam.sh_beam[2], poly_order) * Pow(c.beam.sh_beam[2], poly_order) * IvarScale

\* What a fit_at_z call returned, or that it raised.
Returned(out) ==
    [raised |-> out.raised, z |-> out.z, templates |-> out.templates, A |-> out.A,
     ok_temp |-> out.ok_temp, out_coeffs |-> out.out_coeffs, chi2 |-> out.chi2]

\* A cutout that was built.
Usable == ~cutout.none /\ ~cutout.raised

\* cutout.init_poly_coeffs(poly_order), called on its own.
InitPolyCoeffs(poly_order) ==
    /\ Usable /\ search.pc = "none"
    /\ cutout' = init_poly_coeffs(cutout, poly_order)
    /\ UNCHANGED <<fltVars, beamVars, raceVars, grism, search>>

\* cutout.fit_at_z(z, templates, poly_order=poly_order), called on its
\* own; search.out keeps what it returned.
FitAtZ(z, line_complexes, poly_order) ==
    /\ Usable /\ search.pc = "none"
    /\ \E out \in {fit_at_z(cutout, z, load_templates(line_complexes), poly_order)} :
          /\ cutout' = out.cutout
          /\ search' = [pc |-> "none", out |-> Returned(out)]
    /\ UNCHANGED <<fltVars, beamVars, raceVars, grism>>

\* fit_redshift(poly_order, zr, dz) up to the coarse loop: lines 2547-2559.
\* search.fits lists the fit_at_z evaluations of this call.
FitRedshift(poly_order) ==
    /\ Usable /\ search.pc = "none"
    /\ \E out \in {fit_at_z(cutout, 0, load_templates(TRUE), poly_order)} :
          /\ cutout' = out.cutout
          /\ search' = [pc         |-> IF out.raised THEN "raised" ELSE "coarse",
                        poly_order |-> poly_order,
                        out        |-> Returned(out),
                        fits       |-> <<[z |-> 0, phase |-> "first"]>>,
                        zgrid      |-> log_zgrid,
                        chi2       |-> [i \in 1..NZ |-> 0],
                        coeffs     |-> [i \in 1..NZ |-> [j \in 1..Len(out.out_coeffs) |-> 0]],
                        i          |-> 0,
                        zgrid_zoom |-> <<>>,
                        chi2_zoom  |-> <<>>,
                        coeffs_zoom |-> <<>>,
                        coarse     |-> <<>>,
                        zbest      |-> 0 - 1]
    /\ UNCHANGED <<fltVars, beamVars, raceVars, grism>>

\* One pass of the coarse loop: lines 2561-2565.
CoarseStep ==
    /\ search.pc = "coarse" /\ search.i < NZ
    /\ \E out \in {fit_at_z(cutout, search.zgrid[search.i + 1], load_templates(TRUE),
                            search.poly_order)} :
          /\ cutout' = out.cutout
          /\ search' = IF out.raised
                       THEN [search EXCEPT !.pc = "raised", !.out = Returned(out),
                                !.fits = Append(@, [z |-> out.z, phase |-> "coarse"])]
                       ELSE [search EXCEPT
                                !.out = Returned(out),
                                !.fits = Append(@, [z |-> out.z, phase |-> "coarse"]),
                                !.chi2[search.i + 1] = out.chi2,
                                !.coeffs[search.i + 1] = out.out_coeffs,
                                !.i = @ + 1]
    /\ UNCHANGED <<fltVars, beamVars, raceVars, grism>>

\* After the coarse loop: the refined grid, lines 2570-2588.
Refine ==
    /\ search.pc = "coarse" /\ search.i = NZ
    /\ LET S  == Chi2Unit(cutout, search.poly_order)
           zz == zoom_zgrid(search.zgrid, search.chi2, S, cutout.DoF,
                            zoom_threshold(search.chi2, S, cutout.DoF), 1)
       IN  search' = [search EXCEPT
                        !.pc = "zoom",
                        !.i = 0,
                        !.coarse = search.chi2,
                        !.zgrid_zoom = zz,
                        !.chi2_zoom = [i \in 1..Len(zz) |-> 0],
                        !.coeffs_zoom = [i \in 1..Len(zz) |->
                                           [j \in 1..Len(search.coeffs[1]) |-> 0]]]
    /\ UNCHANGED <<fltVars, beamVars, raceVars, grism, cutout>>

\* One pass of the refined loop: lines 2590-2597.
ZoomStep ==
    /\ search.pc = "zoom" /\ search.i < Len(search.zgrid_zoom)
    /\ \E out \in {fit_at_z(cutout, search.zgrid_zoom[search.i + 1],
                            load_templates(TRUE), search.poly_order)} :
          /\ cutout' = out.cutout
          /\ search' = IF out.raised
                       THEN [search EXCEPT !.pc = "raised", !.out = Returned(out),
                                !.fits = Append(@, [z |-> out.z, phase |-> "zoom"])]
                       ELSE [search EXCEPT
                                !.out = Returned(out),
                                !.fits = Append(@, [z |-> out.z, phase |-> "zoom"]),
                                !.chi2_zoom[search.i + 1] = out.chi2,
                                !.coeffs_zoom[search.i + 1] = out.out_coeffs,
                                !.i = @ + 1]
    /\ UNCHANGED <<fltVars, beamVars, raceVars, grism>>

\* After the refined loop: the grids are merged and sorted by redshift and
\* the best redshift is fitted with the single-line templates, lines
\* 2599-2612; search then holds what fit_data returns.
BestFit ==
    /\ search.pc = "zoom" /\ search.i = Len(search.zgrid_zoom)
    /\ LET zg == search.zgrid \o search.zgrid_zoom
           ch == search.chi2 \o search.chi2_zoom
           co == search.coeffs \o search.coeffs_zoom
           so == ArgSort(zg)
           chi2  == [r \in 1..Len(zg) |-> ch[so[r]]]
           zgrid == [r \in 1..Len(zg) |-> zg[so[r]]]
           zbest == zgrid[np_argmin(chi2)]
       IN  \E out \in {fit_at_z(cutout, zbest, load_templates(FALSE),
                                search.poly_order)} :
              /\ cutout' = out.cutout
              /\ search' = [search EXCEPT
                              !.pc = IF out.raised THEN "raised" ELSE "done",
                              !.out = Returned(out),
                              !.fits = Append(@, [z |-> out.z, phase |-> "best"]),
                              !.zgrid = zgrid,
                              !.chi2 = chi2,
                              !.coeffs = [r \in 1..Len(zg) |-> co[so[r]]],
                              !.zbest = zbest]
    /\ UNCHANGED <<fltVars, beamVars, raceVars, grism>>

\* The exposure after compute_model_orders for each of args in turn, from
\* st = [model, object_dispersers, calls].
RECURSIVE FltAfter(_, _, _, _)
FltAfter(f, st, args, i) ==
    IF i > Len(args) THEN st
    ELSE Bind(compute_model_orders(f, st.model, st.object_dispersers, args[i]),
           LAMBDA r :
             FltAfter(f, [model |-> r.model,
                          object_dispersers |-> r.object_dispersers,
                          calls |-> Append(st.calls,
                                      [a |-> args[i],
                                       was |-> st.object_dispersers[args[i].id].kind,
                                       ret |-> r.ret, log |-> r.log])],
                      args, i + 1))

\* A fresh exposure.
FreshFlt(f) ==
    [model |-> Zeros(f.direct.sh), object_dispersers |-> EmptyRegistry, calls |-> <<>>]

\* An exposure without bad pixels that shows object 1 four times as bright
\* as its flat model, on a background of 1.
CleanGrism(f) ==
    Bind(FltAfter(f, FreshFlt(f), <<DefaultArgs(1, ObjPos(f, 1), NoneSpec)>>, 1).model,
      LAMBDA md :
        [SCI |-> MkArr(f.direct.sh, LAMBDA i, j : 1 + 4 * md.v[<<i, j>>]),
         ERR |-> MkArr(f.direct.sh, LAMBDA i, j : 1 + (j % 2)),
         DQ  |-> MkArr(f.direct.sh, LAMBDA i, j : 0)])

\* Objects 1 and 2 have been added to the model; the cutout is one of the
\* stored beams of object 1.
InitFit ==
    /\ frame = CutFrame
    /\ \E st \in {FltAfter(frame, FreshFlt(frame),
                           <<DefaultArgs(1, ObjPos(frame, 1), NoneSpec),
                             DefaultArgs(2, ObjPos(frame, 2), NoneSpec)>>, 1)} :
          /\ model = st.model
          /\ object_dispersers = st.object_dispersers
          /\ calls = st.calls
    /\ BeamIdle
    /\ serialized = FALSE /\ holder = 0 /\ writers = <<>>
    /\ grism \in {CleanGrism(frame)}
                   \cup {GrismData(frame.direct.sh, k) : k \in {0, 1}}
    /\ cutout \in {[BeamCutout(frame, grism, model, object_dispersers,
                               object_dispersers[1].beams[k])
                       EXCEPT !.src = "registered"] :
                     k \in 1..Len(object_dispersers[1].beams)}
    /\ search = NoSearch

SearchStep == CoarseStep \/ Refine \/ ZoomStep \/ BestFit

NextFit ==
    \/ \E p \in 0..MaxPoly : InitPolyCoeffs(p)
    \/ \E z \in 0..(2 * NZ - 1), lc \in BOOLEAN, p \in 0..MaxPoly : FitAtZ(z, lc, p)
    \/ \E p \in 0..MaxPoly : FitRedshift(p)
    \/ SearchStep

SpecFit == InitFit /\ [][NextFit]_vars

-----------------------------------------------------------------------------
(* Template fits: claims C15, C16, C17, C20 (checked under SpecFit)         *)

\* A fit_at_z call has returned or raised.
HasOut == "out" \in DOMAIN search

\* The number of continuum columns of the matrix a fit returned.
ContinuumColumns(o) == Len(o.A) - Len(o.templates)

\* The redshifted template overlaps the beam's wavelength coverage, the
\* interval from the least to the greatest anchor wavelength.
Covered(temp, lam_beam) ==
    LET L  == {lam_beam[k] : k \in DOMAIN lam_beam}
        lo == SetMin(L)
        hi == CHOOSE m \in L : \A o \in L : o <= m
    IN  temp.wave[1] <= hi /\ temp.wave[Len(temp.wave)] >= lo

\* The dispersed model of a redshifted template.
TemplateModel(c, temp) ==
    compute_model(c.beam, NoId, NoneArr, MkSpec(temp.wave, temp.flux), FALSE).out

\* The model's peak inside the fit mask is at least 20% of its peak.
PeakInMask(c, tm) ==
    LET rows == {t \in DOMAIN tm : c.fit_mask[t]}
    IN  /\ rows # {}
        /\ 5 * ArrMax([t \in rows |-> tm[t]]) >= ArrMax(tm)

\* C15: in fit_at_z the templates that enter the solve are exactly those
\* whose redshifted wavelength range overlaps the beam's coverage [min,
\* max of the anchor wavelengths] and whose dispersed model's peak inside
\* the fit mask is at least 20% of its overall peak; every other template
\* gets the coefficient zero, the fit does not raise, and the coefficient
\* vector has one entry per continuum column plus one per template.
C15_TemplatesInSolve ==
    HasOut =>
        LET o  == search.out
            n0 == ContinuumColumns(o)
        IN  /\ ~o.raised
            /\ Len(o.out_coeffs) = n0 + Len(o.templates)
            /\ \A k \in 1..Len(o.templates) :
                  LET temp == zscale(o.templates[k], o.z)
                      in_solve == /\ Covered(temp, cutout.beam.lam_beam)
                                  /\ PeakInMask(cutout, TemplateModel(cutout, temp))
                  IN  /\ o.ok_temp[n0 + k] <=> in_solve
                      /\ ~in_solve => o.out_coeffs[n0 + k] = 0

\* On a trace of decreasing wavelength a template that overlaps the
\* coverage, with its model's peak inside the fit mask, is left out.
C15_OverlappingTemplateDropped ==
    /\ HasOut /\ ~search.out.raised
    /\ cutout.beam.lam_beam[1] > cutout.beam.lam_beam[Len(cutout.beam.lam_beam)]
    /\ \E k \in 1..Len(search.out.templates) :
          LET temp == zscale(search.out.templates[k], search.out.z)
              tm   == TemplateModel(cutout, temp)
          IN  /\ Covered(temp, cutout.beam.lam_beam)
              /\ PeakInMask(cutout, tm)
              /\ \E t \in DOMAIN tm : cutout.fit_mask[t] /\ tm[t] > 0
              /\ ~search.out.ok_temp[ContinuumColumns(search.out) + k]
              /\ search.out.out_coeffs[ContinuumColumns(search.out) + k] = 0

\* C16: fit_redshift reports as zbest the redshift with the least
\* chi-square among all coarse and refined grid points, so the least of
\* the returned chi-squares is never greater than the least chi-square of
\* the coarse grid alone.
C16_BestIsArgminOfMerged ==
    search.pc = "done" =>
        /\ Len(search.zgrid) = NZ + Len(search.zgrid_zoom)
        /\ Len(search.chi2) = Len(search.zgrid)
        /\ \E i \in 1..Len(search.zgrid) :
              /\ search.zgrid[i] = search.zbest
              /\ \A j \in 1..Len(search.chi2) : search.chi2[i] <= search.chi2[j]
        /\ \A k \in 1..Len(search.coarse) :
              SetMin({search.chi2[j] : j \in 1..Len(search.chi2)}) <= search.coarse[k]
        /\ \A k \in 1..Len(search.coarse) :
              \E j \in 1..Len(search.zgrid) :
                 search.zgrid[j] = log_zgrid[k] /\ search.chi2[j] = search.coarse[k]

\* A search whose best redshift is a refined point, better than every
\* coarse point.
C16_RefinedBeatsCoarse ==
    /\ search.pc = "done"
    /\ \A k \in 1..NZ : search.zbest # log_zgrid[k]
    /\ \A k \in 1..Len(search.coarse) :
          SetMin({search.chi2[j] : j \in 1..Len(search.chi2)}) < search.coarse[k]

\* The evaluations of phase ph made so far, in order.
FitsOf(ph) == SelectSeq(search.fits, LAMBDA e : e.phase = ph)

\* C17 as stated: when fit_redshift is through, each coarse-grid redshift
\* was fitted exactly once in the coarse scan and not again after the
\* refinement, and each refined-grid redshift was fitted exactly once.
C17_NoGridPointRefitted ==
    search.pc = "done" =>
        /\ \A k \in 1..NZ :
              /\ Cardinality({n \in 1..Len(search.fits) :
                                /\ search.fits[n].phase = "coarse"
                                /\ search.fits[n].z = log_zgrid[k]}) = 1
              /\ \A n \in 1..Len(search.fits) :
                    search.fits[n].phase \in {"zoom", "best"}
                        => search.fits[n].z # log_zgrid[k]
        /\ \A k \in 1..Len(search.zgrid_zoom) :
              Cardinality({n \in 1..Len(search.fits) :
                             search.fits[n].z = search.zgrid_zoom[k]}) = 1

\* The evaluations of a search so far: one at z = 0, the coarse grid in
\* order, then the refined grid in order, no refined point being a coarse
\* one, and last one more at zbest.
C17_Evaluations ==
    search.pc \in {"coarse", "zoom", "done"} =>
        /\ FitsOf("first") = <<[z |-> 0, phase |-> "first"]>>
        /\ FitsOf("coarse") =
              [k \in 1..(IF search.pc = "coarse" THEN search.i ELSE NZ) |->
                  [z |-> log_zgrid[k], phase |-> "coarse"]]
        /\ FitsOf("zoom") =
              [k \in 1..(IF search.pc = "zoom" THEN search.i
                         ELSE Len(search.zgrid_zoom)) |->
                  [z |-> search.zgrid_zoom[k], phase |-> "zoom"]]
        /\ \A k \in 1..Len(search.zgrid_zoom), j \in 1..NZ :
              search.zgrid_zoom[k] # log_zgrid[j]
        /\ \A k, j \in 1..Len(search.zgrid_zoom) :
              search.zgrid_zoom[k] = search.zgrid_zoom[j] => k = j
        /\ FitsOf("best") =
              IF search.pc = "done" THEN <<[z |-> search.zbest, phase |-> "best"]>>
              ELSE <<>>
        /\ Len(search.fits) <= NZ + Len(search.zgrid_zoom) + 2
        /\ Len(search.zgrid_zoom) < NZ
        /\ search.pc = "done" => Len(search.fits) = NZ + Len(search.zgrid_zoom) + 2
        /\ search.pc = "coarse" => search.i \in 0..NZ
        /\ search.pc = "zoom" => search.i \in 0..Len(search.zgrid_zoom)

\* The passes a search may still make: what is left of the coarse loop,
\* the refinement, at most NZ - 1 refined points and the last fit.
PassesLeft(s) ==
    CASE s.pc = "coarse" -> (NZ - s.i) + NZ + 1
      [] s.pc = "zoom"   -> (Len(s.zgrid_zoom) - s.i) + 1
      [] OTHER           -> 0

\* Every pass of a search brings its end nearer.
C17_Progress ==
    (search.pc \in {"coarse", "zoom"} /\ search' # search)
        => PassesLeft(search') < PassesLeft(search)

\* C17, amended: each coarse-grid redshift is fitted exactly once in the
\* coarse scan and each refined-grid redshift, none of which is a coarse
\* one, exactly once in the refined scan; besides these there is one
\* evaluation at z = 0 before the scans and one at zbest, a grid point,
\* after them; a search that has begun stands at a pass of one of its
\* two loops or at the end of a loop, every pass brings its end nearer,
\* and it ends after as many evaluations as both grids have points plus
\* two, or with an exception.
C17_ScansFitOnce == []C17_Evaluations /\ [][C17_Progress]_vars

\* A finished search with refined points whose best redshift was fitted
\* in a scan and once more at the end.
C17_Witness ==
    /\ search.pc = "done"
    /\ Len(search.zgrid_zoom) >= 1
    /\ Cardinality({n \in 1..Len(search.fits) : search.fits[n].z = search.zbest}) = 2
    /\ search.fits[Len(search.fits)] = [z |-> search.zbest, phase |-> "best"]

\* xpf**order * flat at pixel t, as the fraction num / den.
IsPowerTimesFlat(v, order, c) ==
    LET NX == c.beam.sh_beam[2]
    IN  \A t \in DOMAIN c.flat_flam :
           v.num[t] * Pow(NX, order)
              = Pow(2 * (t % NX) - NX, order) * c.flat_flam[t] * v.den

\* C20 as stated: after init_poly_coeffs(poly_order) every vector of
\* A_poly is a power (0..poly_order) of the normalized column coordinate
\* times the flat-spectrum model.
C20_EveryVectorPowerTimesFlat ==
    (Usable /\ cutout.poly_order >= 0) =>
        \A j \in 1..Len(cutout.A_poly) :
           \E o \in 0..cutout.poly_order : IsPowerTimesFlat(cutout.A_poly[j], o, cutout)

\* The vectors of A_poly: a constant background vector of ones, then the
\* powers 0..poly_order of the normalized column coordinate times the
\* flat-spectrum model.
C20_Basis ==
    (Usable /\ cutout.poly_order >= 0) =>
        /\ Len(cutout.A_poly) = cutout.poly_order + 2
        /\ \A t \in DOMAIN cutout.flat_flam :
              cutout.A_poly[1].num[t] = cutout.A_poly[1].den
        /\ \A o \in 0..cutout.poly_order :
              IsPowerTimesFlat(cutout.A_poly[o + 2], o, cutout)
        /\ cutout.flat_flam
              = compute_model(cutout.beam, NoId, NoneArr, NoneSpec, FALSE).out

\* A step that leaves poly_order alone leaves A_poly alone, and the first
\* columns of the matrix a fit returns are the vectors of A_poly.
C20_BasisKept ==
    /\ (Usable /\ cutout.poly_order >= 0 /\ cutout'.poly_order = cutout.poly_order)
          => cutout'.A_poly = cutout.A_poly
    /\ (search' # search /\ "out" \in DOMAIN search') =>
          LET D == Pow(cutout'.beam.sh_beam[2], cutout'.poly_order)
          IN  \A j \in 1..Len(cutout'.A_poly), t \in DOMAIN cutout'.flat_flam :
                 search'.out.A[j][t] * cutout'.A_poly[j].den
                    = cutout'.A_poly[j].num[t] * D

\* C20, amended: after init_poly_coeffs(poly_order), A_poly holds a
\* constant background vector of ones followed by the continuum basis
\* vectors, the powers 0..poly_order of the normalized column coordinate
\* each multiplied elementwise by the flat-spectrum model; and the same
\* vectors are used unchanged by every fit_at_z call at that poly_order,
\* whatever the trial redshift.
C20_BackgroundThenPowers == []C20_Basis /\ [][C20_BasisKept]_vars

\* A search at poly_order 1 has fitted several redshifts on a cutout whose
\* first-order vector is not zero.
C20_Witness ==
    /\ search.pc = "done" /\ cutout.poly_order = 1
    /\ Len(cutout.A_poly) = 3
    /\ \E t \in DOMAIN cutout.flat_flam : cutout.A_poly[3].num[t] # 0

-----------------------------------------------------------------------------
(* Flux conservation of the dispersion: claim C21 (checked under SpecBeam)  *)

\* The targets in the flat buffer of the object's pixels: for each pixel of
\* the segment and each anchor, the index of the trace row and the one a
\* row above.
Targets(b) ==
    UNION {LET t == b.flat_index[k] + (p[1] - b.x0[1]) * b.sh_beam[2]
                       + (p[2] - b.x0[2])
           IN  {t, t + b.sh_beam[2]} :
           p \in {q \in DOMAIN b.direct.v : b.seg.v[q] = b.id}, k \in 1..b.NX}

\* The flux of the direct image inside the object's segment.
SegmentFlux(b) ==
    SumOver([p \in DOMAIN b.direct.v |->
                IF b.seg.v[p] = b.id THEN b.direct.v[p] ELSE 0], DOMAIN b.direct.v)

\* C21: for a beam computed with the flat-spectrum template, the sum of
\* the 2D model equals the flux of the thumbnail inside the object's
\* segment times the sum of the anchor sensitivities, whenever no target
\* index falls outside the output buffer.  (The model is carried in half
\* units: the row fractions are halves.)
C21_FluxConserved ==
    (/\ res.op = "compute_model"
     /\ res.status \in {"True", "array"}
     /\ res.arg.flat /\ res.arg.thumb_none
     /\ Targets(disp) \subseteq DOMAIN disp.modelf)
        => LET out == IF res.status = "True" THEN Model2D(disp) ELSE res.data
           IN  SumOver(out.v, DOMAIN out.v)
                  = 2 * SegmentFlux(disp)
                      * SumOver(disp.sensitivity_beam, DOMAIN disp.sensitivity_beam)

\* A flat-spectrum model of an object with flux, wholly inside the buffer,
\* with an anchor of nonzero weight whose flux is split between two rows.
C21_Witness ==
    /\ res.op = "compute_model" /\ res.status = "True"
    /\ res.arg.flat /\ res.arg.thumb_none
    /\ Targets(disp) \subseteq DOMAIN disp.modelf
    /\ SegmentFlux(disp) > 0
    /\ \E k \in 1..disp.NX :
          /\ disp.yfrac_beam[k] = 1
          /\ disp.sensitivity_beam[k] > 0
          /\ disp.modelf[disp.flat_index[k] + (0 - disp.x0[1]) * disp.sh_beam[2]
                            - disp.x0[2] + disp.sh_beam[2]] > 0

-----------------------------------------------------------------------------
(* Out-of-place calls: claim C22 (checked under Spec)                       *)

\* C22: a compute_model_orders call with in_place = False leaves
\* GrismFLT.model and the object registry, with the model buffers and last
\* templates of all registered beams (those of the same id included),
\* unchanged, and adds nothing but the given object's orders to the fresh
\* array it returns.
C22_OutOfPlaceLeavesStateAlone ==
    [][(Len(calls') > Len(calls) /\ ~calls'[Len(calls')].a.in_place)
          => /\ model' = model
             /\ object_dispersers' = object_dispersers
             /\ \A k \in 1..Len(calls'[Len(calls')].log) :
                   calls'[Len(calls')].log[k].op = "add"]_vars

\* An out-of-place call with another template for an id registered with
\* its beams has left its template in the registered beams, whose models
\* are no longer those added to the detector.
C22_StoredBeamsRewritten ==
    /\ Len(calls) = 2
    /\ calls[1].a.in_place /\ calls[1].a.store /\ calls[1].ret = "True"
    /\ calls[1].was = "absent"
    /\ ~calls[2].a.in_place /\ calls[2].ret = "beams_output"
    /\ calls[2].a.id = calls[1].a.id
    /\ calls[2].a.spectrum_1d # calls[1].a.spectrum_1d
    /\ LET bs == object_dispersers[calls[1].a.id].beams
       IN  /\ Len(bs) > 0
           /\ \A k \in 1..Len(bs) :
                 /\ bs[k].spectrum_1d = calls[2].a.spectrum_1d
                 /\ Model2D(bs[k]) # calls[1].log[k].data

-----------------------------------------------------------------------------
(* GrismFLT.compute_full_model (SpecFull)                                   *)

\* Number of calls followed on one exposure.
MaxFullCalls == 2

\* self.ABZP, the zero-point set by process_ref_file (lines 1376-1377), in
\* magnitudes.
ABZP == 25

\* np.unique(a): the distinct values of an array, ascending.
np_unique(a) ==
    LET S == {a.v[q] : q \in DOMAIN a.v}
    IN  CHOOSE u \in [1..Cardinality(S) -> S] :
           \A i, j \in 1..Cardinality(S) : i < j => u[i] < u[j]

\* self.ABZP - 2.5*np.log10(segm_flux) of line 1704, rounded up to a whole
\* magnitude (the faint limits it is compared with are whole): 2.5*log10
\* of a flux reaches n at 10**(0.4*n).  A flux of zero gives +inf.
segment_mag(segm_flux) ==
    IF segm_flux <= 0 THEN 99
    ELSE ABZP - Cardinality({t \in {3, 7, 16, 40, 100} : segm_flux >= t})

\* The arguments of the call of lines 1717-1718.
FullArgs(id, mag, store) ==
    [id |-> id, pos_none |-> TRUE, y |-> 0, x |-> 0, size |-> 10,
     mag |-> mag, spectrum_1d |-> NoneSpec, compute_size |-> TRUE, store |-> store,
     in_place |-> TRUE, get_beams |-> NoBeams]

\* The loop of lines 1713-1718 from id i on.  st = [model,
\* object_dispersers, made, raised]: made lists the compute_model_orders
\* calls made, with their return values.
RECURSIVE full_loop(_, _, _, _, _, _)
full_loop(f, st, ids, mags, i, store) ==
    IF i > Len(ids) \/ st.raised THEN st
    ELSE Bind(compute_model_orders(f, st.model, st.object_dispersers,
                                   FullArgs(ids[i], mags[i], store)),
      LAMBDA r :
        full_loop(f, [model |-> r.model, object_dispersers |-> r.object_dispersers,
                      made |-> Append(st.made, [id |-> ids[i], mag |-> mags[i],
                                                ret |-> r.ret]),
                      raised |-> r.ret = "raise"],
                  ids, mags, i + 1, store))

\* GrismFLT.compute_full_model(ids=None, mags=None, store).  f.ref says
\* whether process_ref_file processed a reference image, which is where
\* self.thumb_extension and self.ABZP are set (lines 1376-1379; with
\* ref_file = None it returns at line 1328): without them line 1700 raises
\* AttributeError for the first id.  f.direct is the image thumbnails are
\* cut from.  Result: [ret, model, object_dispersers, made].
compute_full_model(f, fmodel, registry, store) ==
    LET ids  == Tail(np_unique(f.seg))
        mags == [i \in 1..Len(ids) |->
                    segment_mag(compute_segmentation_limits(f.seg, ids[i],
                                                            f.direct).flux)]
    IN  IF Len(ids) > 0 /\ ~f.ref
        THEN [ret |-> "raise", model |-> fmodel, object_dispersers |-> registry,
              made |-> <<>>]
        ELSE Bind(full_loop(f, [model |-> fmodel, object_dispersers |-> registry,
                                made |-> <<>>, raised |-> FALSE],
                            ids, mags, 1, store),
               LAMBDA st :
                 [ret |-> IF st.raised THEN "raise" ELSE "None",
                  model |-> st.model, object_dispersers |-> st.object_dispersers,
                  made |-> st.made])

\* The exposures considered, each with and without a processed reference
\* image, and an exposure whose segmentation map holds no object.
FullFrames ==
    {[ref |-> b] @@ f :
        f \in FindFrames \cup Frames
               \cup {[Frame(<<FltSize, FltSize>>, 0) EXCEPT
                         !.seg = Zeros(<<FltSize, FltSize>>)]},
        b \in BOOLEAN}

InitFull ==
    /\ frame \in FullFrames
    /\ model = Zeros(frame.direct.sh)
    /\ object_dispersers = EmptyRegistry
    /\ calls = <<>>
    /\ BeamIdle
    /\ RaceIdle

\* One compute_full_model call.  calls keeps its store argument, its
\* return value and the compute_model_orders calls it made.
ComputeFullModel(store) ==
    /\ Len(calls) < MaxFullCalls
    /\ \E r \in {compute_full_model(frame, model, object_dispersers, store)} :
           /\ model' = r.model
           /\ object_dispersers' = r.object_dispersers
           /\ calls' = Append(calls, [a |-> FullArgs(0, 0, store), was |-> "full",
                                      ret |-> r.ret, log |-> r.made])
    /\ UNCHANGED <<frame, beamVars, raceVars, cutVars>>

NextFull ==
    \/ \E store \in BOOLEAN : ComputeFullModel(store)
    \/ \E a \in FindArgs(frame) : OrdersCall(a, MaxFullCalls)

SpecFull == InitFull /\ [][NextFull]_vars

\* The object ids of a segmentation map, ascending.
ObjectIds(seg) ==
    LET S == {seg.v[q] : q \in DOMAIN seg.v} \ {0}
    IN  CHOOSE u \in [1..Cardinality(S) -> S] :
           \A i, j \in 1..Cardinality(S) : i < j => u[i] < u[j]

\* C23: compute_full_model with mags = None completes without raising,
\* whether or not a reference image was processed: it takes every object
\* id of the segmentation map, computes a magnitude for each from its
\* segment flux and the zero-point, and calls compute_model_orders once
\* per id, in order, going on to the next id when one is not found.
C23_FullModelCompletes ==
    \A n \in 1..Len(calls) :
        calls[n].was = "full" =>
            LET ids == ObjectIds(frame.seg)
            IN  /\ calls[n].ret = "None"
                /\ Len(calls[n].log) = Len(ids)
                /\ \A i \in 1..Len(ids) :
                      /\ calls[n].log[i].id = ids[i]
                      /\ calls[n].log[i].mag
                            = segment_mag(compute_segmentation_limits(
                                             frame.seg, ids[i], frame.direct).flux)
                      /\ calls[n].log[i].ret # "raise"

\* compute_full_model raised on an exposure with objects for which no
\* reference image was processed, before any compute_model_orders call.
C23_RaisesWithoutReference ==
    /\ Len(calls) = 1
    /\ calls[1].was = "full" /\ calls[1].ret = "raise"
    /\ ~frame.ref
    /\ Len(ObjectIds(frame.seg)) > 0
    /\ calls[1].log = <<>>
    /\ model = Zeros(frame.direct.sh)

-----------------------------------------------------------------------------
(* BeamCutout.simple_line_fit and BeamCutout.compute_model (SpecLine)       *)

\* Number of in-place operations followed on one cutout.
MaxLineOps == 1

\* np.arange(l0, l1, dl) for whole numbers, dl > 0.
np_arange(l0, l1, dl) ==
    [i \in 1..(IF l1 > l0 THEN CeilInt(l1 - l0, dl) ELSE 0) |-> l0 + (i - 1) * dl]

\* waves[grid[3]/2::grid[3]] of line 2879: every skip-th point, from index
\* skip/2 (integer division) on.
line_centers(waves, skip) ==
    LET start == skip \div 2
        n     == IF Len(waves) > start
                 THEN CeilInt(Len(waves) - start, skip) ELSE 0
    IN  [i \in 1..n |-> waves[start + (i - 1) * skip + 1]]

\* A row of gaussian_lines (lines 2881-2883) for a line as wide as the
\* grid step: the normalized Gaussian on the wavelength grid, in units in
\* which it is 2 at the centre, 1 one step away and 0 beyond.
gaussian_line(center, waves) ==
    [w \in 1..Len(waves) |->
        IF waves[w] = center THEN 2
        ELSE IF Abs(waves[w] - center) <= 1 THEN 1 ELSE 0]

\* Whether the beam object a cutout holds is the object its caller passed
\* in: never, init_from_input builds a new GrismDisperser from copies of
\* the thumbnails (lines 2130-2134).  A variant that keeps the object of
\* a registered beam comes first.
shares_parent_beam_registered(src) == src = "registered"

shares_parent_beam(src) == FALSE

\* The registry after an operation took the cutout c0 to c1: a beam object
\* shared with the registry shows the operation's writes.
ParentAfter(registry, c0, c1) ==
    IF shares_parent_beam(c0.src) /\ registry[c0.id].kind = "beams"
    THEN [registry EXCEPT ![c0.id].beams =
            [k \in 1..Len(@) |-> IF @[k].beam = c0.beam.beam THEN c1.beam ELSE @[k]]]
    ELSE registry

\* BeamCutout.simple_line_fit(fwhm, grid, fitter='lstsq', poly_order).
\* c: the cutout; grid = <<l0, l1, dl, skip>>.  Result: [raised, cutout,
\* waves, line_centers, coeffs, chi2, best_line_center]: raised for the
\* ValueError of np.argmin over no trial center (line 2911); cutout is the
\* cutout afterwards: self.model is a view of the beam's buffer.  With
\* H = 2*(NX/2) and D = H**poly_order the columns are carried in units of
\* 1/D and chi2 in units of 1/(D*D*IvarScale).
simple_line_fit(c, grid, poly_order) ==
    Bind(compute_model(c.beam, NoId, NoneArr, NoneSpec, TRUE).b,
      LAMBDA b0 :
        LET modelf  == b0.modelf
            T       == DOMAIN modelf
            peak    == ArrMax(modelf)
            maskf   == Flatten(c.mask)
            ivarf   == Flatten(c.ivar)
            rows    == {t \in T : ~maskf[t] /\ ivarf[t] # 0
                                    /\ 100 * modelf[t] > 3 * peak}
            scif    == Flatten(MkArr(b0.sh_beam, LAMBDA i, j :
                                 c.grism.SCI.v[<<i, j>>] - c.contam.v[<<i, j>>]))
            NX      == b0.sh_beam[2]
            H       == 2 * (NX \div 2)
            D       == Pow(H, poly_order)
            cont    == [o \in 1..(poly_order + 1) |->
                          [t \in T |-> Pow(2 * (t % NX) - NX, o - 1) * modelf[t]
                                          * (D \div Pow(H, o - 1))]]
            waves   == np_arange(grid[1], grid[2], grid[3])
            centers == line_centers(waves, grid[4])
            line(i) == compute_model(b0, NoId, NoneArr,
                                     MkSpec(waves, gaussian_line(centers[i], waves)),
                                     TRUE).b
        IN  Bind([i \in 1..Len(centers) |->
                    Bind(cont \o <<[t \in T |-> line(i).modelf[t] * D]>>,
                      LAMBDA A :
                        Bind(lstsq(A, [t \in T |-> scif[t] * D], rows),
                          LAMBDA co :
                            LET fitted(t) == SumOver([j \in 1..Len(A) |->
                                                        co[j] * A[j][t]], 1..Len(A))
                            IN  [coeffs |-> co,
                                 chi2 |-> SumOver([t \in rows |->
                                            (scif[t] * D - fitted(t))
                                              * (scif[t] * D - fitted(t))
                                              * ivarf[t]], rows)]))],
              LAMBDA fits :
                LET chi2 == [i \in 1..Len(centers) |-> fits[i].chi2]
                    stop == Len(centers) = 0
                    ix   == IF stop THEN 0 ELSE np_argmin(chi2)
                    b1   == IF stop THEN b0 ELSE line(ix)
                IN  [raised |-> stop,
                     cutout |-> [c EXCEPT !.beam = b1, !.model = Model2D(b1),
                                          !.modelf = modelf],
                     waves |-> waves,
                     line_centers |-> centers,
                     coeffs |-> [i \in 1..Len(centers) |-> fits[i].coeffs],
                     chi2 |-> chi2,
                     best_line_center |-> IF stop THEN 0 ELSE centers[ix]]))

\* The grids handed to simple_line_fit: <<l0, l1, dl, skip>>.
LineGrids == {<<9, 15, 1, skip>> : skip \in 1..3}

\* cutout.simple_line_fit(grid=grid, poly_order=poly_order); search.line
\* keeps its arguments and what it returned.
SimpleLineFit(grid, poly_order) ==
    /\ Usable /\ search.pc = "none" /\ nops < MaxLineOps
    /\ \E out \in {simple_line_fit(cutout, grid, poly_order)} :
          /\ cutout' = out.cutout
          /\ object_dispersers' = ParentAfter(object_dispersers, cutout, out.cutout)
          /\ search' = [pc |-> "none",
                        line |-> [grid |-> grid, poly_order |-> poly_order,
                                  raised |-> out.raised, waves |-> out.waves,
                                  line_centers |-> out.line_centers,
                                  coeffs |-> out.coeffs, chi2 |-> out.chi2,
                                  best_line_center |-> out.best_line_center]]
    /\ nops' = nops + 1
    /\ UNCHANGED <<frame, model, calls, disp, full_array, res, raceVars, grism>>

\* cutout.compute_model(spectrum_1d=spectrum_1d, in_place=in_place), the
\* link to self.beam.compute_model (lines 2255-2261).
CutoutComputeModel(spectrum_1d, in_place) ==
    /\ Usable /\ search.pc = "none" /\ nops < MaxLineOps
    /\ \E b \in {compute_model(cutout.beam, NoId, NoneArr, spectrum_1d, in_place).b} :
          \E c1 \in {[cutout EXCEPT !.beam = b, !.model = Model2D(b)]} :
              /\ cutout' = c1
              /\ object_dispersers' = ParentAfter(object_dispersers, cutout, c1)
    /\ nops' = nops + 1
    /\ UNCHANGED <<frame, model, calls, disp, full_array, res, raceVars, grism, search>>

NextLine ==
    \/ \E g \in LineGrids, p \in 0..MaxPoly : SimpleLineFit(g, p)
    \/ \E t \in {NoneSpec, T1}, in_place \in BOOLEAN : CutoutComputeModel(t, in_place)
    \/ \E z \in {0, 1} : FitAtZ(z, FALSE, 0)
    \/ FitRedshift(0)
    \/ SearchStep

SpecLine == InitFit /\ [][NextLine]_vars

\* C24: simple_line_fit scans one emission-line basis vector over trial
\* centers taken every skip points of wave = arange(l0, l1, dl), starting
\* at its first element (line_centers = wave[::skip]), and returns one
\* coefficient row of length poly_order + 2 and one chi-square per trial
\* center.
C24_CentersEverySkipFromFirst ==
    "line" \in DOMAIN search =>
        LET r     == search.line
            skip  == r.grid[4]
            wave  == np_arange(r.grid[1], r.grid[2], r.grid[3])
            every == [i \in 1..CeilInt(Len(wave), skip) |-> wave[(i - 1) * skip + 1]]
        IN  /\ ~r.raised
            /\ r.line_centers = every
            /\ Len(r.coeffs) = Len(r.line_centers)
            /\ Len(r.chi2) = Len(r.line_centers)
            /\ \A i \in 1..Len(r.coeffs) : Len(r.coeffs[i]) = r.poly_order + 2

\* A scan with skip = 2 whose first trial center is the second grid point
\* and which has fewer centers than wave[::skip].
C24_CentersFromHalfSkip ==
    /\ "line" \in DOMAIN search
    /\ search.line.grid[4] = 2
    /\ ~search.line.raised
    /\ search.line.line_centers[1] = search.line.waves[2]
    /\ search.line.line_centers[1] # search.line.waves[1]
    /\ \E i \in 1..Len(search.line.chi2) :
          search.line.chi2[i] # search.line.chi2[1]

-----------------------------------------------------------------------------
(* The integer trace of GrismDisperser.__init__ (SpecTrace)                 *)

\* Trace positions run over the half pixels from -MaxTrace2/2 to MaxTrace2/2.
MaxTrace2 == 60

\* One anchor whose trace position conf.get_beam_trace returned.
InitTrace ==
    /\ FltIdle
    /\ disp = <<>> /\ full_array = Zeros(<<0, 0>>) /\ nops = 0
    /\ res \in {[op |-> "ytrace_beam", yt2 |-> y] : y \in (0 - MaxTrace2)..MaxTrace2}

\* Lines 212-215 for that anchor.
IntegerTrace ==
    /\ res.op = "ytrace_beam"
    /\ res' = [op |-> "dyc", yt2 |-> res.yt2,
               dyc |-> integer_trace(res.yt2),
               yfrac2 |-> fractional_trace2(res.yt2)]
    /\ UNCHANGED <<fltVars, raceVars, cutVars, disp, full_array, nops>>

SpecTrace == InitTrace /\ [][IntegerTrace]_vars

\* C25: for every anchor the integer row offset int(y + 20) - 20, to which
\* the code adds the constant 1, equals floor(y) for every trace position
\* y, negative ones of any magnitude included, and the fractional row
\* offset y - floor(y) lies in [0, 1).
C25_IntegerTraceIsFloor ==
    res.op = "dyc" =>
        /\ res.dyc - 1 = res.yt2 \div 2
        /\ res.yfrac2 \in {0, 1}
        /\ res.yfrac2 = res.yt2 - 2 * (res.yt2 \div 2)

\* The trace position y = -20.5: the cast truncates -0.5 to 0, the offset
\* is floor(y) + 2.
C25_BelowTheBias ==
    /\ res.op = "dyc"
    /\ res.yt2 = 0 - (2 * TraceBias + 1)
    /\ res.dyc = 0 - TraceBias + 1
    /\ res.dyc = (res.yt2 \div 2) + 2

-----------------------------------------------------------------------------
(* The grid returned by fit_redshift: claim C26 (checked under SpecFit)     *)

\* The number of times v occurs in the sequence s.
Occurrences(s, v) == Cardinality({i \in 1..Len(s) : s[i] = v})

\* C26: the grid fit_redshift returns is the merge of the coarse and the
\* refined grids sorted in nondecreasing redshift, and chi2[i] and
\* coeffs[i] are the values fit_at_z computed at zgrid[i].
C26_MergedGridSorted ==
    search.pc = "done" =>
        LET merged == log_zgrid \o search.zgrid_zoom
        IN  /\ Len(search.zgrid) = Len(merged)
            /\ \A i \in 1..Len(merged) :
                  Occurrences(search.zgrid, merged[i]) = Occurrences(merged, merged[i])
            /\ \A i \in 1..(Len(search.zgrid) - 1) :
                  search.zgrid[i] <= search.zgrid[i + 1]
            /\ Len(search.chi2) = Len(merged)
            /\ Len(search.coeffs) = Len(merged)
            /\ \A i \in 1..Len(search.zgrid) :
                  \E out \in {fit_at_z(cutout, search.zgrid[i], load_templates(TRUE),
                                        search.poly_order)} :
                      /\ ~out.raised
                      /\ search.chi2[i] = out.chi2
                      /\ search.coeffs[i] = out.out_coeffs

\* A returned grid in which a refined point lies before a coarse one, with
\* chi2 values that differ along the grid.
C26_Witness ==
    /\ search.pc = "done"
    /\ Len(search.zgrid_zoom) > 0
    /\ \E i \in 1..NZ, j \in 1..Len(search.zgrid_zoom) :
          search.zgrid_zoom[j] < log_zgrid[i]
    /\ \E i, j \in 1..Len(search.chi2) : search.chi2[i] # search.chi2[j]

-----------------------------------------------------------------------------
(* Objects registered with their template only (SpecStore)                  *)

\* The calls considered on exposure f: object 1 at its position with a
\* flat or a template spectrum, stored or not, in place or not; object 1
\* at another position and object 2, not stored.
StoreArgs(f) ==
    LET P1 == <<f.row + 1, 1>>
        P2 == <<f.row + 2, 1>>
    IN  {[DefaultArgs(1, P1, t) EXCEPT !.store = st, !.in_place = ip] :
            t \in {NoneSpec, T1}, st \in BOOLEAN, ip \in BOOLEAN}
        \cup {[DefaultArgs(1, P2, NoneSpec) EXCEPT !.store = FALSE],
              [DefaultArgs(2, P2, T1) EXCEPT !.store = FALSE]}

NextStore == \E a \in StoreArgs(frame) : OrdersCall(a, MaxCalls)

SpecStore == Init /\ [][NextStore]_vars

\* An in-place call with an explicit position and size and the configured
\* orders, that returned True.
InPlaceAt(c) ==
    /\ c.a.in_place /\ c.a.get_beams.none
    /\ ~c.a.pos_none /\ ~c.a.compute_size
    /\ c.ret = "True"

\* What the call with arguments a adds to a fresh exposure.
AddedAfresh(a) ==
    SelectSeq(compute_model_orders(frame, Zeros(model.sh), EmptyRegistry, a).log,
              LAMBDA e : e.op = "add")

\* C27: after an in-place compute_model_orders call with store = False for
\* an unregistered id, the registry entry of the id is exactly the
\* supplied template (None for a flat spectrum) and holds no beam; a later
\* in-place call for the same id with the same position, size and
\* magnitude rebuilds the beams, reconstructs their old models from the
\* stored template, subtracts exactly the contribution added before and
\* then adds the new one.
C27_TemplateOnlyEntry ==
    Len(calls) > 0 /\ InPlaceAt(calls[Len(calls)]) =>
        LET n     == Len(calls)
            c     == calls[n]
            entry == object_dispersers[c.a.id]
            K     == {k \in 1..(n - 1) : calls[k].a.id = c.a.id /\ InPlaceAt(calls[k])}
            k     == CHOOSE m \in K : \A o \in K : o <= m
            old   == AddedAfresh(calls[k].a)
            new   == AddedAfresh(c.a)
        IN  /\ (c.was = "absent" /\ ~c.a.store) =>
                   /\ entry = Uncomputed(c.a.spectrum_1d)
                   /\ entry.beams = <<>>
            /\ (c.was = "spec" /\ K # {}
                  /\ calls[k].a.y = c.a.y /\ calls[k].a.x = c.a.x
                  /\ calls[k].a.size = c.a.size /\ calls[k].a.mag = c.a.mag) =>
                   /\ Len(new) = Len(old)
                   /\ Len(c.log) = 2 * Len(old)
                   /\ \A i \in 1..Len(old) :
                         /\ c.log[2 * i - 1].op = "sub"
                         /\ c.log[2 * i - 1].beam = old[i].beam
                         /\ c.log[2 * i - 1].data = old[i].data
                         /\ c.log[2 * i - 1].data = PrevAdded(c.a.id, n)[i].data
                         /\ c.log[2 * i].op = "add"
                         /\ c.log[2 * i].beam = new[i].beam
                         /\ c.log[2 * i].data = new[i].data
                   /\ entry = IF c.a.store
                              THEN Computed(compute_model_orders(
                                       frame, Zeros(model.sh), EmptyRegistry,
                                       [c.a EXCEPT !.store = TRUE]).object_dispersers[c.a.id].beams)
                              ELSE Uncomputed(c.a.spectrum_1d)
                   /\ n = 2 =>
                         model = compute_model_orders(frame, Zeros(model.sh),
                                                      EmptyRegistry, c.a).model

\* Object 1, registered with a template only by a call that did not store
\* its beams, has been computed in place again with another template: a
\* nonzero old model was subtracted and a different one added.
C27_Witness ==
    /\ Len(calls) = 2
    /\ InPlaceAt(calls[1]) /\ InPlaceAt(calls[2])
    /\ calls[1].was = "absent" /\ ~calls[1].a.store
    /\ calls[2].was = "spec"
    /\ calls[2].a.id = calls[1].a.id
    /\ calls[2].a.y = calls[1].a.y /\ calls[2].a.x = calls[1].a.x
    /\ calls[2].a.spectrum_1d # calls[1].a.spectrum_1d
    /\ Len(calls[2].log) >= 2
    /\ calls[2].log[1].op = "sub"
    /\ calls[2].log[1].data # calls[2].log[2].data
    /\ \E q \in DOMAIN calls[2].log[1].data.v : calls[2].log[1].data.v[q] # 0
    /\ \E q \in DOMAIN model.v : model.v[q] # 0

-----------------------------------------------------------------------------
(* The cutout's own beam: claim C28 (checked under SpecLine)                *)

\* The beam of the cutout's object and order in the parent's registry.
ParentBeam ==
    LET bs == object_dispersers[cutout.id].beams
    IN  bs[CHOOSE k \in 1..Len(bs) : bs[k].beam = cutout.beam.beam]

\* C28: the beam held by a BeamCutout is an independent copy of the
\* parent's beam: no BeamCutout operation (compute_model, fit_at_z,
\* fit_redshift, simple_line_fit) changes the parent GrismFLT's detector
\* model, its registry, or the model buffer, thumbnail, segmentation or
\* last template of any beam registered in the parent.
C28_ParentUntouched ==
    [][/\ model' = model
       /\ object_dispersers' = object_dispersers
       /\ \A id \in AllIds :
             \A k \in 1..Len(object_dispersers[id].beams) :
                 /\ object_dispersers'[id].beams[k].modelf
                       = object_dispersers[id].beams[k].modelf
                 /\ object_dispersers'[id].beams[k].direct
                       = object_dispersers[id].beams[k].direct
                 /\ object_dispersers'[id].beams[k].seg
                       = object_dispersers[id].beams[k].seg
                 /\ object_dispersers'[id].beams[k].spectrum_1d
                       = object_dispersers[id].beams[k].spectrum_1d]_vars

\* A cutout made from a registered beam has computed another model in
\* place, in simple_line_fit: its beam's buffer and last template differ
\* from those of the registered beam, which has a nonzero model.
C28_Witness ==
    /\ Usable
    /\ cutout.src = "registered"
    /\ "line" \in DOMAIN search
    /\ ~search.line.raised
    /\ object_dispersers[cutout.id].kind = "beams"
    /\ cutout.beam.modelf # ParentBeam.modelf
    /\ cutout.beam.spectrum_1d # ParentBeam.spectrum_1d
    /\ \E t \in DOMAIN ParentBeam.modelf : ParentBeam.modelf[t] # 0

-----------------------------------------------------------------------------
(* In-place models on a used buffer (SpecBuffer)                            *)

\* A template whose flux is NaN at its second point.
TNaN == MkSpecNaN(<<9, 10, 11, 12, 13, 14>>, <<1, 1, 1, 1, 1, 1>>, {2})

\* compute_model on the direct image: the stored or another id, a flat
\* spectrum or a template, in place or not.
BufferArgs == {NoId, 1} \X {NoneArr} \X {NoneSpec, T1, T2, TNaN} \X BOOLEAN

NextBuffer == \E a \in BufferArgs : ComputeModel(a[1], a[2], a[3], a[4])

SpecBuffer == InitBeam /\ [][NextBuffer]_vars

\* The beam b with the buffer a new GrismDisperser has.
OnFreshBuffer(b) ==
    [b EXCEPT !.modelf = [t \in DOMAIN b.modelf |-> 0], !.nonfinite = {}]

\* C29: an in-place GrismDisperser.compute_model is independent of the
\* buffer's previous contents: the buffer is zeroed before rasterizing, so
\* after a successful in-place call, whatever in-place calls came before,
\* the model equals the model of the last template alone (calling twice
\* with one template gives the same as calling once), and that template
\* is the one recorded in spectrum_1d; with in_place = False the beam's
\* own model and spectrum_1d are left unchanged.
C29_InPlaceIgnoresBuffer ==
    res.op = "compute_model" =>
        /\ res.status = "True" =>
              \E fresh \in {compute_model(OnFreshBuffer(res.dbefore), res.arg.id, NoneArr,
                                           res.arg.spectrum_1d, TRUE).b} :
                  /\ disp.modelf = fresh.modelf
                  /\ disp.nonfinite = fresh.nonfinite
                  /\ disp.spectrum_1d = res.arg.spectrum_1d
        /\ res.status = "array" =>
              /\ disp.modelf = res.dbefore.modelf
              /\ disp.nonfinite = res.dbefore.nonfinite
              /\ disp.spectrum_1d = res.dbefore.spectrum_1d

\* A successful in-place call with a finite template on a buffer in which an
\* earlier in-place call had left NaN: the cells still hold NaN, while
\* the model of the template alone is finite everywhere.
C29_NaNSurvivesZeroing ==
    /\ res.op = "compute_model"
    /\ res.status = "True"
    /\ "nan" \notin DOMAIN res.arg.spectrum_1d
    /\ res.dbefore.nonfinite # {}
    /\ disp.nonfinite = res.dbefore.nonfinite
    /\ compute_model(OnFreshBuffer(res.dbefore), res.arg.id, NoneArr,
                     res.arg.spectrum_1d, TRUE).b.nonfinite = {}

-----------------------------------------------------------------------------
(* The parent slices: claim C30 (checked under SpecImg)                     *)

\* C30: for every GrismDisperser the parent slices have exactly the
\* dimensions of the beam's 2D model: sly_parent spans thumbnail-height
\* rows starting at origin[0], slx_parent spans thumbnail-width plus
\* number-of-offsets columns, and the model buffer has height x width
\* entries, so the direct slice path of add_to_full_image and
\* cutout_from_full_image never has a shape mismatch.
C30_ParentSlicesFitModel ==
    /\ disp.sly_parent[1] = disp.origin[1]
    /\ disp.sly_parent[2] - disp.sly_parent[1] = disp.sh[1]
    /\ disp.slx_parent[2] - disp.slx_parent[1] = disp.sh[2] + Len(disp.dx)
    /\ disp.sh_beam = <<disp.sh[1], disp.sh[2] + Len(disp.dx)>>
    /\ DOMAIN disp.modelf = 0..(disp.sh_beam[1] * disp.sh_beam[2] - 1)
    /\ Model2D(disp).sh = <<disp.sly_parent[2] - disp.sly_parent[1],
                            disp.slx_parent[2] - disp.slx_parent[1]>>
    /\ (res.op \in {"add", "cutout"}
          /\ contained_in_full_array(res.dbefore, res.before)) =>
            /\ res.status # "raise"
            /\ res.op = "add" =>
                  /\ res.status = "True"
                  /\ \A q \in DOMAIN full_array.v :
                        full_array.v[q] =
                          res.before.v[q]
                            + (IF /\ q[1] >= disp.sly_parent[1] /\ q[1] < disp.sly_parent[2]
                                  /\ q[2] >= disp.slx_parent[1] /\ q[2] < disp.slx_parent[2]
                               THEN res.data.v[<<q[1] - disp.sly_parent[1],
                                                 q[2] - disp.slx_parent[1]>>]
                               ELSE 0)
            /\ res.op = "cutout" =>
                  /\ res.status = "array"
                  /\ res.data.sh = disp.sh_beam
                  /\ \A q \in DOMAIN res.data.v :
                        res.data.v[q] = res.before.v[<<q[1] + disp.sly_parent[1],
                                                       q[2] + disp.slx_parent[1]>>]

\* A beam of order B away from the detector's corner, whose footprint is
\* inside the detector, has been added by the direct slice path.
C30_Witness ==
    /\ res.op = "add"
    /\ contained_in_full_array(res.dbefore, res.before)
    /\ res.status = "True"
    /\ disp.beam = "B"
    /\ disp.origin[1] > 0
    /\ disp.origin[2] # disp.slx_parent[1]
    /\ disp.sh[1] # disp.sh[2]
    /\ full_array # res.before

====
